---- MODULE Spec2Model ----
(***************************************************************************)
(* Active Harmony search strategies: the ANGEL (multi-objective            *)
(* Nelder-Mead) plug-in of src/src/plugins/strategies/angel.c and the PRO  *)
(* (parallel rank ordering) strategy of src/build/strategies/pro.c, as     *)
(* state machines driven by the calls of a host pipeline.                  *)
(*                                                                         *)
(* Numbers.  Coordinates and performance values are doubles in the source. *)
(* Here they are fixed-point integers: a coordinate is a number of         *)
(* sub-units (Unit sub-units per index step of the one finite dimension),  *)
(* a performance value a number of 1/PerfUnit.  A step whose result is not *)
(* representable in this resolution is not taken (field lossless).         *)
(* HUGE_VAL / INFINITY is the sentinel HUGE_VAL, NaN the sentinel NAN.     *)
(***************************************************************************)
EXTENDS Integers, Sequences, FiniteSets, TLC

\* ------------------------------------------------------------------ bounds
MaxId      == 4      \* ANGEL: analyze is not called once next_id exceeds it
MaxPerf    == 1      \* measured objective values are 0..MaxPerf (in PerfUnit)
MaxRejects == 1      \* ANGEL: number of rejected calls per search
IdxMax     == 3      \* the dimension's legal indices are 0..IdxMax
Resolution == 2      \* Unit = 2^Resolution sub-units per index step
MaxLoop    == 8      \* rounds of nm_algorithm's bounds loop followed in one call
MaxRuns    == 4      \* PRO: no report is made once pro_algorithm has run so often
MaxStrays  == 1      \* PRO: reports that match a vertex not awaiting its report
CoefMax    == 4      \* PRO: a coefficient key holds one of 0/2, 1/2, .., CoefMax/2
DimLen     == 2      \* EXHAUSTIVE: number of values of each dimension
MaxPasses  == 2      \* EXHAUSTIVE: PASSES is one of 1..MaxPasses
MaxWaiting == 3      \* EXHAUSTIVE: points the host lets await analysis at a time
MaxFlatId  == 8      \* ANGEL, narrow simplex: analyze is not called beyond this id
MaxPhaseRejects == 3 \* ANGEL, penalty method: rejected calls in the longer runs
MaxObjectives == 4   \* ANGEL penalty: number of objectives (PERF_COUNT)
MaxExtra   == 2      \* EXHAUSTIVE: generate calls made once the passes are over

Unit     == 2 ^ Resolution
TermMax  == IdxMax * Unit
PerfUnit == 1000
HUGE_VAL == 1000000000
NAN      == HUGE_VAL + 1

\* ------------------------------------------------- double arithmetic (math.h)
IsNaN(a) == a = NAN
IsFin(a) == a > -HUGE_VAL /\ a < HUGE_VAL
DLt(a, b) == ~IsNaN(a) /\ ~IsNaN(b) /\ a < b
DGt(a, b) == DLt(b, a)
DAdd(a, b) ==
    IF IsNaN(a) \/ IsNaN(b) THEN NAN
    ELSE IF IsFin(a) /\ IsFin(b) THEN a + b
    ELSE IF IsFin(a) THEN b
    ELSE IF IsFin(b) THEN a
    ELSE IF a = b THEN a ELSE NAN
DNeg(a) == IF IsNaN(a) THEN NAN ELSE -a
DSub(a, b) == DAdd(a, DNeg(b))
\* a * (q[1] / q[2]) for a rational q >= 0
DMulQ(a, q) ==
    IF IsNaN(a) THEN NAN
    ELSE IF IsFin(a) THEN (a * q[1]) \div q[2]
    ELSE IF q[1] = 0 THEN NAN ELSE a
Abs(a) == IF a < 0 THEN -a ELSE a

\* 1000 * ln(n) for n = 1..16, rounded to the nearest integer
LnMilli == << 0, 693, 1099, 1386, 1609, 1792, 1946, 2079,
              2197, 2303, 2398, 2485, 2565, 2639, 2708, 2773 >>
RECURSIVE Gcd(_, _)
Gcd(a, b) == IF b = 0 THEN a ELSE Gcd(b, a % b)

\* ------------------------------------------------------------ search space
SpaceLen == 1                        \* space->len: one finite dimension
SimplexLen == SpaceLen + 1           \* simplex_init(&simplex, space->len)
Legal  == { i * Unit : i \in 0..IdxMax }   \* coordinates of the legal values

\* ------------------------------------------------ libvertex (ANGEL, 4.6 API)
hperf_reset(perf) == [ i \in DOMAIN perf |-> HUGE_VAL ]
Vertex(id, term, perf) == [ id |-> id, term |-> term, perf |-> perf ]
\* a space none of whose values is legal
vertex_outofbounds(v) == FALSE
vertex_inbounds(v) == v.term >= 0 /\ v.term <= TermMax
\* nearest legal value (half-way cases round up)
Align(term) == ((term + Unit \div 2) \div Unit) * Unit
vertex_point(v) == [ id |-> v.id, term |-> Align(v.term) ]
vertex_norm(a, b) == Abs(a.term - b.term)
\* result = base + c * (base - origin), c = q[1] / q[2]; result keeps its id/perf
TransformExact(base, origin, q) == ((base.term - origin.term) * q[1]) % q[2] = 0
vertex_transform(base, origin, q, result) ==
    [ result EXCEPT !.term =
        base.term + ((base.term - origin.term) * q[1]) \div q[2] ]
\* the vertex takes the point's id and coordinates
vertex_set(v, pt) == [ v EXCEPT !.id = pt.id, !.term = pt.term ]
simplex_collapsed(s) ==
    \A i \in DOMAIN s : Align(s[i].term) = Align(s[1].term)

\* ------------------------------------------------------------ ANGEL: options
INIT == "INIT"
REFLECT == "REFLECT"
EXPAND == "EXPAND"
CONTRACT == "CONTRACT"
SHRINK == "SHRINK"
CONVERGED == "CONVERGED"
REJECT_METHOD_PENALTY == "penalty"
REJECT_METHOD_RANDOM == "random"

\* coefficients as rationals <<numerator, denominator>> (the keys' defaults)
reflect_val  == << 1, 1 >>
expand_val   == << 2, 1 >>
contract_val == << 1, 2 >>
shrink_val   == << 1, 2 >>
Neg(q) == << -q[1], q[2] >>
leeway(i) == << 1, 2 >>      \* ANGEL_LEEWAY: 0.5 for every objective
mult == << 1, 1 >>           \* ANGEL_MULT
loose == FALSE               \* ANGEL_LOOSE
anchor == TRUE               \* ANGEL_ANCHOR
samesimplex == TRUE          \* ANGEL_SAMESIMPLEX
space_size == TermMax        \* vertex_norm(minimum, maximum)
dist_tol == << 0, 1 >>       \* DIST_TOL unset: the calloc'ed field stays 0.0
tol_cnt == 0                 \* TOL_CNT is read only when DIST_TOL is set
fval_tol == 1                \* FVAL_TOL (read only in the size/fval branch)
size_tol == space_size \div 4 \* SIZE_TOL 0.25 * space_size (same branch), sub-units
\* a double held as a fraction << numerator, denominator >>; 0/0 is NaN
IsNaNQ(q) == q[2] = 0
QLt(a, b) == ~IsNaNQ(a) /\ ~IsNaNQ(b) /\ a[1] * b[2] < b[1] * a[2]
QLe(a, b) == ~IsNaNQ(a) /\ ~IsNaNQ(b) /\ a[1] * b[2] <= b[1] * a[2]
NaNQ == << 0, 0 >>
\* DIST_TOL and TOL_CNT of the searches that configure a distance tolerance
DistTols == { << 1, 2 >>, << 1, 4 >> }
TolCnts == { 1, 2 }
\* <<PERF_COUNT, REJECT_METHOD>> of the searches modelled
Configs == { << 1, REJECT_METHOD_PENALTY >>, << 1, REJECT_METHOD_RANDOM >>,
             << 2, REJECT_METHOD_PENALTY >> }
\* simplex_set(): the initial simplexes of the searches modelled, all in bounds
InitTerms == { << Unit, 2 * Unit >>, << Unit \div 2, 0 >> }

\* ---------------------------------------------------- ANGEL: data accessors
\* data->next is a pointer to a simplex vertex or to a scratch vertex
NextVertex(d) ==
    CASE d.next.slot = "simplex"  -> d.simplex[d.next.idx + 1]
      [] d.next.slot = "reflect"  -> d.reflect
      [] d.next.slot = "expand"   -> d.expand
      [] d.next.slot = "contract" -> d.contract
SetNext(d, v) ==
    CASE d.next.slot = "simplex"  -> [ d EXCEPT !.simplex[d.next.idx + 1] = v ]
      [] d.next.slot = "reflect"  -> [ d EXCEPT !.reflect = v ]
      [] d.next.slot = "expand"   -> [ d EXCEPT !.expand = v ]
      [] d.next.slot = "contract" -> [ d EXCEPT !.contract = v ]
Obj(d, i) == d.simplex[i + 1].perf[d.phase + 1]

\* ------------------------------------------------------ ANGEL: update_centroid
RECURSIVE IndexBest(_, _, _)
IndexBest(d, i, b) ==
    IF i >= SimplexLen THEN b
    ELSE IndexBest(d, i + 1, IF DLt(Obj(d, i), Obj(d, b)) THEN i ELSE b)
RECURSIVE IndexWorst(_, _, _)
IndexWorst(d, i, w) ==
    IF i >= SimplexLen THEN w
    ELSE IndexWorst(d, i + 1, IF DGt(Obj(d, i), Obj(d, w)) THEN i ELSE w)
RECURSIVE SumTerm(_, _)
SumTerm(s, I) ==
    IF I = {} THEN 0
    ELSE LET i == CHOOSE k \in I : TRUE IN s[i].term + SumTerm(s, I \ {i})
RECURSIVE SumPerf(_, _, _)
SumPerf(s, I, k) ==
    IF I = {} THEN 0
    ELSE LET i == CHOOSE j \in I : TRUE IN DAdd(s[i].perf[k], SumPerf(s, I \ {i}, k))
\* mean of the vertices whose id is not 0; 0/0 is not representable
simplex_centroid(s, centroid) ==
    LET I == { i \in DOMAIN s : s[i].id # 0 }
        n == Cardinality(I)
    IN  IF n = 0 THEN centroid
        ELSE [ centroid EXCEPT
                 !.term = SumTerm(s, I) \div n,
                 !.perf = [ k \in DOMAIN centroid.perf |->
                              DMulQ(SumPerf(s, I, k), << 1, n >>) ] ]
CentroidExact(s) ==
    LET I == { i \in DOMAIN s : s[i].id # 0 }
    IN  I # {} /\ SumTerm(s, I) % Cardinality(I) = 0
update_centroid(d) ==
    LET b == IndexBest(d, 1, 0)
        w == IndexWorst(d, 1, 0)
        s == [ d.simplex EXCEPT ![w + 1].id = 0 ]
    IN  [ d EXCEPT !.index_best = b,
                   !.index_worst = w,
                   !.centroid = simplex_centroid(s, d.centroid),
                   !.lossless = d.lossless /\ CentroidExact(s) ]

\* ----------------------------------------------------- ANGEL: increment_phase
RECURSIVE Nearest(_, _, _, _)
Nearest(d, i, min_dist, idx) ==
    IF i >= SimplexLen THEN idx
    ELSE LET curr_dist == vertex_norm(d.centroid, d.simplex[i + 1])
         IN  IF min_dist > curr_dist THEN Nearest(d, i + 1, curr_dist, i)
             ELSE Nearest(d, i + 1, min_dist, idx)
\* the first initial-simplex vertex takes the best vertex, whichever is nearest
AnchoredAtFirst(d) == [ d EXCEPT !.simplex[1] = d.centroid ]
\* if (anchor): the vertex nearest to the copy of the best vertex takes its place
Anchored(d) == [ d EXCEPT !.simplex[Nearest(d, 0, HUGE_VAL, -1) + 1] = d.centroid ]
\* the step `tval *= leeway` left out
ThresholdNoLeeway(d) ==
    DAdd(DSub(d.span[d.phase + 1].max, d.span[d.phase + 1].min),
         d.span[d.phase + 1].min)
\* tval = (span.max - span.min) * leeway + span.min
Threshold(d) ==
    DAdd(DMulQ(DSub(d.span[d.phase + 1].max, d.span[d.phase + 1].min),
               leeway(d.phase)),
         d.span[d.phase + 1].min)
increment_phase(d) ==
    LET tval == Threshold(d)
        d1 == IF d.phase >= 0 THEN [ d EXCEPT !.thresh[d.phase + 1] = tval ] ELSE d
        d2 == [ d1 EXCEPT !.phase = d.phase + 1,
                          !.ANGEL_PHASE = d.phase + 1,
                          !.centroid = d.simplex[d.index_best + 1] ]
        d3 == [ d2 EXCEPT !.simplex = d.init_simplex ]
        d4 == IF d3.best.id > 0 /\ anchor THEN Anchored(d3) ELSE d3
    IN  [ d4 EXCEPT !.best_perf = hperf_reset(d.best_perf),
                    !.best.id = 0,
                    !.state = INIT,
                    !.flat_run = 0 ]

\* --------------------------------------------------- ANGEL: check_convergence
Flat(d) ==
    \A i \in 1..(SimplexLen - 1) :
        ~(DLt(Obj(d, i), Obj(d, 0)) \/ DLt(Obj(d, 0), Obj(d, i)))
\* the label without its test of the phase: any convergence ends the search
converged_at_once(d) == [ d EXCEPT !.state = CONVERGED, !.CONVERGED = 1 ]
\* the label without its test of the phase: every convergence starts a phase
converged_into_next(d) == increment_phase(d)
\* converged: if (phase == perf_n - 1) { ... } else increment_phase();
converged(d) ==
    IF d.phase = d.perf_n - 1
    THEN [ d EXCEPT !.state = CONVERGED, !.CONVERGED = 1 ]
    ELSE increment_phase(d)
\* mean squared deviation of the simplex values from the centroid's (x PerfUnit^2)
FvalErr(d) ==
    LET dev(i) == DSub(Obj(d, i), d.centroid.perf[d.phase + 1])
        sq(x) == IF IsNaN(x) THEN NAN ELSE IF IsFin(x) THEN x * x ELSE HUGE_VAL
    IN  IF \E i \in 0..(SimplexLen - 1) : ~IsFin(sq(dev(i)))
        THEN (IF \E i \in 0..(SimplexLen - 1) : IsNaN(sq(dev(i))) THEN NAN ELSE HUGE_VAL)
        ELSE SumTerm([ i \in 1..SimplexLen |-> [ term |-> sq(dev(i - 1)) ] ],
                     1..SimplexLen) \div SimplexLen
SizeMax(d) ==
    LET D == { vertex_norm(d.simplex[i], d.centroid) : i \in 1..SimplexLen }
    IN  CHOOSE m \in D : \A x \in D : x <= m
check_convergence(d) ==
    LET flat == Flat(d)
        d1 == [ d EXCEPT !.flat_cnt = IF flat THEN d.flat_cnt + 1 ELSE 0,
                         !.flat_run = IF flat THEN d.flat_run + 1 ELSE 0 ]
    IN  IF flat /\ d1.flat_cnt >= 3
        THEN converged([ d1 EXCEPT !.flat_cnt = 0, !.flat_conv = d1.flat_run ])
        ELSE IF simplex_collapsed(d1.simplex)
        THEN converged(d1)
        ELSE IF ~IsNaNQ(d1.dist_tol)
        THEN IF QLt(d1.move_len, d1.dist_tol)
             THEN IF d1.cnt + 1 >= d1.tol_cnt
                  THEN converged([ d1 EXCEPT !.cnt = 0 ])
                  ELSE [ d1 EXCEPT !.cnt = d1.cnt + 1 ]
             ELSE [ d1 EXCEPT !.cnt = 0 ]
        ELSE IF DLt(FvalErr(d1), fval_tol * PerfUnit * PerfUnit)
                /\ SizeMax(d1) < size_tol
        THEN converged(d1)
        ELSE d1

\* ------------------------------------------------- ANGEL: nm_state_transition
ReplaceWorst(d, v) == [ d EXCEPT !.simplex[d.index_worst + 1] = v ]
\* the step without the increment of index_curr: the same vertex is tested again
SimplexStepStays(d) ==
    IF d.index_curr = SpaceLen + 1
    THEN [ update_centroid(d) EXCEPT !.state = REFLECT, !.index_curr = 0 ]
    ELSE d
\* the step without the reset of index_curr when the walk is over
SimplexStepKeepsIndex(d) ==
    IF d.index_curr + 1 = SpaceLen + 1
    THEN [ update_centroid(d) EXCEPT !.state = REFLECT, !.index_curr = d.index_curr + 1 ]
    ELSE [ d EXCEPT !.index_curr = d.index_curr + 1 ]
\* case INIT, SHRINK: if (++index_curr == space->len + 1) { ... }
SimplexStep(d) ==
    IF d.index_curr + 1 = SpaceLen + 1
    THEN [ update_centroid(d) EXCEPT !.state = REFLECT, !.index_curr = 0 ]
    ELSE [ d EXCEPT !.index_curr = d.index_curr + 1 ]
\* the step with its two tests in the other order: a reflection better than
\* the worst vertex is taken at once
ReflectStepNoExpand(d) ==
    IF DLt(d.reflect.perf[d.phase + 1], Obj(d, d.index_worst))
    THEN update_centroid(ReplaceWorst(d, d.reflect))
    ELSE IF DLt(d.reflect.perf[d.phase + 1], Obj(d, d.index_best))
    THEN [ d EXCEPT !.state = EXPAND ]
    ELSE [ d EXCEPT !.state = CONTRACT ]
\* case SIMPLEX_STATE_REFLECT
ReflectStep(d) ==
    IF DLt(d.reflect.perf[d.phase + 1], Obj(d, d.index_best))
    THEN [ d EXCEPT !.state = EXPAND ]
    ELSE IF DLt(d.reflect.perf[d.phase + 1], Obj(d, d.index_worst))
    THEN update_centroid(ReplaceWorst(d, d.reflect))
    ELSE [ d EXCEPT !.state = CONTRACT ]
\* the step that keeps the expanded point whatever it measured
ExpandStepKeepsExpanded(d) ==
    [ update_centroid(ReplaceWorst(d, d.expand)) EXCEPT !.state = REFLECT ]
\* case SIMPLEX_STATE_EXPAND
ExpandStep(d) ==
    [ update_centroid(IF DLt(d.expand.perf[d.phase + 1], Obj(d, d.index_best))
                      THEN ReplaceWorst(d, d.expand)
                      ELSE ReplaceWorst(d, d.reflect))
      EXCEPT !.state = REFLECT ]
\* the step that takes the contracted point whatever it measured
ContractStepAlwaysTakes(d) ==
    [ update_centroid(ReplaceWorst(d, d.contract)) EXCEPT !.state = REFLECT ]
\* case SIMPLEX_STATE_CONTRACT
ContractStep(d) ==
    IF DLt(d.contract.perf[d.phase + 1], Obj(d, d.index_worst))
    THEN [ update_centroid(ReplaceWorst(d, d.contract)) EXCEPT !.state = REFLECT ]
    ELSE [ d EXCEPT !.index_curr = -1, !.state = SHRINK ]
nm_state_transition(d) ==
    CASE d.state \in { INIT, SHRINK } -> SimplexStep(d)
      [] d.state = REFLECT -> ReflectStep(d)
      [] d.state = EXPAND -> ExpandStep(d)
      [] d.state = CONTRACT -> ContractStep(d)

\* ------------------------------------------------------ ANGEL: nm_next_vertex
simplex_transform(s, pivot, q) ==
    [ i \in DOMAIN s |-> vertex_transform(s[i], pivot, q, s[i]) ]
SimplexTransformExact(s, pivot, q) ==
    \A i \in DOMAIN s : TransformExact(s[i], pivot, q)
\* hperf_reset(&data->next->perf)
ResetNextPerf(d) ==
    LET v == NextVertex(d) IN SetNext(d, [ v EXCEPT !.perf = hperf_reset(v.perf) ])
\* simplex_transform(&simplex, &simplex.vertex[index_best], -shrink_val, &simplex)
Shrunk(d) ==
    [ d EXCEPT !.simplex = simplex_transform(d.simplex, d.simplex[d.index_best + 1],
                                             Neg(shrink_val)),
               !.lossless = d.lossless
                   /\ SimplexTransformExact(d.simplex, d.simplex[d.index_best + 1],
                                            Neg(shrink_val)) ]
\* the simplex is shrunk again before every vertex of the walk
ShrinkStartEveryTime(d) ==
    [ Shrunk(d) EXCEPT !.index_curr = IF d.index_curr = -1 THEN 0 ELSE d.index_curr ]
\* case SIMPLEX_STATE_SHRINK: if (index_curr == -1) { ...; index_curr = 0; }
ShrinkStart(d) ==
    IF d.index_curr = -1 THEN [ Shrunk(d) EXCEPT !.index_curr = 0 ] ELSE d
nm_next_vertex(d) ==
    LET worst == d.simplex[d.index_worst + 1]
        best  == d.simplex[d.index_best + 1]
    IN  ResetNextPerf(
        CASE d.state = INIT ->
               [ d EXCEPT !.next = [ slot |-> "simplex", idx |-> d.index_curr ] ]
          [] d.state = REFLECT ->
               LET r == vertex_transform(d.centroid, worst, reflect_val, d.reflect)
               IN  [ d EXCEPT !.reflect = r,
                              !.move_len = << vertex_norm(worst, r), space_size >>,
                              !.next = [ slot |-> "reflect", idx |-> 0 ],
                              !.lossless = d.lossless
                                  /\ TransformExact(d.centroid, worst, reflect_val) ]
          [] d.state = EXPAND ->
               [ d EXCEPT !.expand = vertex_transform(d.centroid, worst,
                                                      expand_val, d.expand),
                          !.next = [ slot |-> "expand", idx |-> 0 ],
                          !.lossless = d.lossless
                              /\ TransformExact(d.centroid, worst, expand_val) ]
          [] d.state = CONTRACT ->
               [ d EXCEPT !.contract = vertex_transform(worst, d.centroid,
                                                        Neg(contract_val), d.contract),
                          !.next = [ slot |-> "contract", idx |-> 0 ],
                          !.lossless = d.lossless
                              /\ TransformExact(worst, d.centroid, Neg(contract_val)) ]
          [] d.state = SHRINK ->
               [ ShrinkStart(d) EXCEPT
                   !.next = [ slot |-> "simplex", idx |-> ShrinkStart(d).index_curr ] ]
          [] d.state = CONVERGED ->
               [ d EXCEPT !.next = [ slot |-> "simplex", idx |-> d.index_best ] ])

\* --------------------------------------------------------- ANGEL: nm_algorithm
\* if (state == REFLECT) { update_centroid(); check_convergence(); }
NmReflect(d) ==
    IF d.state = REFLECT THEN check_convergence(update_centroid(d)) ELSE d
NmStep(d) == nm_next_vertex(NmReflect(nm_state_transition(d)))
\* do { if (state == CONVERGED) break; ... } while (!vertex_inbounds(next))
\* A call that has not left the loop after MaxLoop rounds is taken not to return
\* (field spinning); such a step is not taken.
RECURSIVE NmLoop(_, _)
NmWhile(d, n) ==
    IF vertex_inbounds(NextVertex(d)) \/ ~d.lossless THEN d ELSE NmLoop(d, n - 1)
NmLoop(d, n) ==
    IF d.state = CONVERGED THEN d
    ELSE IF n = 0 THEN [ d EXCEPT !.spinning = TRUE ]
    ELSE NmWhile(NmStep(d), n)
\* one round of the loop, whether or not the next vertex is in bounds
nm_algorithm_once(d) == IF d.state = CONVERGED THEN d ELSE NmStep(d)
nm_algorithm(d) == NmLoop(d, MaxLoop)

\* ------------------------------------------------------ ANGEL: strategy_init
\* strategy_alloc() and the buffers of allocate_structures(); config_strategy()
\* leaves the space's minimum in expand and its maximum in reflect
AllocData(perf_n, reject_type, terms) ==
    LET unmeasured == [ k \in 1..perf_n |-> NAN ]
        zero == Vertex(0, 0, unmeasured)
    IN  [ best |-> [ id |-> 0, term |-> 0 ],
          best_perf |-> unmeasured,
          reject_type |-> reject_type,
          move_len |-> << 0, 1 >>,
          dist_tol |-> dist_tol,
          tol_cnt |-> tol_cnt,
          DIST_TOL |-> NaNQ,       \* session configuration key, not defined
          state |-> "UNKNOWN",
          centroid |-> zero,
          reflect |-> Vertex(0, TermMax, unmeasured),
          expand |-> zero,
          contract |-> zero,
          init_simplex |-> [ i \in 1..SimplexLen |-> Vertex(0, terms[i], unmeasured) ],
          simplex |-> [ i \in 1..SimplexLen |-> zero ],
          next |-> [ slot |-> "simplex", idx |-> 0 ],
          index_best |-> 0,
          index_worst |-> 0,
          index_curr |-> 0,
          next_id |-> 1,
          phase |-> -1,
          perf_n |-> perf_n,
          thresh |-> [ k \in 1..(perf_n - 1) |-> NAN ],
          span |-> [ k \in 1..perf_n |-> [ min |-> HUGE_VAL, max |-> -HUGE_VAL ] ],
          flat_cnt |-> 0,          \* static of check_convergence
          flat_run |-> 0,          \* history: consecutive flat checks of this phase
          flat_conv |-> 0,         \* history: flat_run when the flatness rule last
                                   \*          converged a phase, 0 if it never did
          cnt |-> 0,               \* static of check_convergence
          CONVERGED |-> 0,         \* session configuration key
          ANGEL_PHASE |-> -1,      \* session configuration key
          lossless |-> TRUE,
          spinning |-> FALSE ]
strategy_init(perf_n, reject_type, terms) ==
    LET d == AllocData(perf_n, reject_type, terms)
    IN  nm_next_vertex(increment_phase([ d EXCEPT !.CONVERGED = 0, !.next_id = 1 ]))

\* config_strategy() when DIST_TOL is defined: cfgval = hcfg_real(DIST_TOL),
\* dist_tol = cfgval * space_size (distances in index steps), tol_cnt = TOL_CNT
ConfigTol(d, cfgval, cnt) ==
    [ d EXCEPT !.DIST_TOL = cfgval,
               !.dist_tol = << cfgval[1] * space_size, cfgval[2] * Unit >>,
               !.tol_cnt = cnt ]

\* config_strategy() on an instance that was searching: the options are read
\* again, the buffers are kept, expand and reflect serve as temporaries for the
\* space's minimum and maximum, and the spans are reset
config_strategy(d) ==
    [ d EXCEPT !.expand.term = 0,
               !.reflect.term = TermMax,
               !.span = [ k \in 1..d.perf_n |-> [ min |-> HUGE_VAL, max |-> -HUGE_VAL ] ] ]
\* strategy_init() called again for the instance: data->phase, index_curr and
\* the statics of check_convergence are not assigned
strategy_reinit(d) ==
    nm_next_vertex(increment_phase(
        [ config_strategy(d) EXCEPT !.CONVERGED = 0, !.next_id = 1 ]))

\* --------------------------------------------------- ANGEL: strategy_generate
\* generate without the test of next->id against next_id
GenerateNeverWaits(d) == FALSE
GenerateWaits(d) == NextVertex(d).id = d.next_id
\* data->next->id = data->next_id;
StampNext(d) == SetNext(d, [ NextVertex(d) EXCEPT !.id = d.next_id ])
strategy_generate(d) == IF GenerateWaits(d) THEN d ELSE StampNext(d)

\* --------------------------------------------------- ANGEL: strategy_rejected
\* hint: a point of the space with a non-zero id, or NoHint
NoHint == [ id |-> 0, term |-> 0 ]
\* the hint branch without vertex_set(): the hint's coordinates are not adopted
RejectedHintDropped(d, point, hint) ==
    SetNext(d, [ NextVertex(d) EXCEPT !.id = point.id ])
\* the hint adopted and the id counter advanced as strategy_analyze does
RejectedHintCounted(d, point, hint) ==
    [ SetNext(d, vertex_set(NextVertex(d), [ hint EXCEPT !.id = point.id ]))
      EXCEPT !.next_id = d.next_id + 1 ]
\* hint->id = point->id; vertex_set(data->next, data->space, hint);
RejectedHint(d, point, hint) ==
    SetNext(d, vertex_set(NextVertex(d), [ hint EXCEPT !.id = point.id ]))
strategy_rejected(d, point, hint, random) ==
    IF hint.id # 0
    THEN RejectedHint(d, point, hint)
    ELSE IF d.reject_type = REJECT_METHOD_PENALTY
    THEN StampNext(nm_algorithm(ResetNextPerf(d)))
    ELSE IF d.reject_type = REJECT_METHOD_RANDOM
    THEN SetNext(d, [ NextVertex(d) EXCEPT !.id = d.next_id, !.term = random ])
    ELSE d
RejectedPoint(d, point, hint, random) ==
    IF hint.id # 0 THEN [ id |-> point.id, term |-> hint.term ]
    ELSE IF d.reject_type \in { REJECT_METHOD_PENALTY, REJECT_METHOD_RANDOM }
    THEN vertex_point(NextVertex(strategy_rejected(d, point, hint, random)))
    ELSE point

\* ---------------------------------------------------- ANGEL: strategy_analyze
SpanUpdate(span, perf) ==
    [ i \in DOMAIN span |->
        [ min |-> IF DGt(span[i].min, perf[i]) THEN perf[i] ELSE span[i].min,
          max |-> IF DLt(span[i].max, perf[i]) /\ DLt(perf[i], HUGE_VAL)
                  THEN perf[i] ELSE span[i].max ] ]
\* 1000 / (1 - log(num / den)), for 0 < num <= den
SoftRepresentable(num, den) ==
    /\ num > 0 /\ den >= num /\ IsFin(den)
    /\ den \div Gcd(num, den) <= Len(LnMilli)
SoftMilli(num, den) ==
    LET g == Gcd(num, den)
    IN  IF ~SoftRepresentable(num, den) THEN 0
        ELSE (1000 * 1000) \div (1000 - (LnMilli[num \div g] - LnMilli[den \div g]))
Violates(d, perf, i) == DGt(perf[i + 1], d.thresh[i + 1])
RECURSIVE PenaltyMilli(_, _, _, _)
PenaltyMilli(d, perf, i, penalty_base) ==
    IF i < 0 THEN 0
    ELSE (IF Violates(d, perf, i)
          THEN (IF loose THEN 0 ELSE 1000 * penalty_base)
               + SoftMilli(perf[i + 1] - d.thresh[i + 1],
                           d.span[i + 1].max - d.thresh[i + 1])
          ELSE 0)
         + PenaltyMilli(d, perf, i - 1, 2 * penalty_base)
PenaltyRepresentable(d, perf) ==
    \A i \in 0..(d.phase - 1) :
        Violates(d, perf, i) =>
            SoftRepresentable(perf[i + 1] - d.thresh[i + 1],
                              d.span[i + 1].max - d.thresh[i + 1])
Penalised(d, perf) ==
    LET ph == d.phase + 1
        p0 == PenaltyMilli(d, perf, d.phase - 1, 1)
        penalty == IF p0 > 0 /\ loose THEN p0 + 1000 ELSE p0
        span == DSub(d.span[ph].max, d.span[ph].min)
    IN  IF penalty > 0
        THEN [ perf EXCEPT ![ph] =
                 DAdd(perf[ph], DMulQ(DMulQ(span, << penalty, 1000 >>), mult)) ]
        ELSE perf
AnalyzeRogue(d, trial) == trial.point.id # NextVertex(d).id
strategy_analyze_ret(d, trial) == IF AnalyzeRogue(d, trial) THEN -1 ELSE 0
\* the best point is replaced whatever the stored best performance is
UpdateBestAlways(d, trial, perf) ==
    [ d EXCEPT !.best_perf = perf, !.best = trial.point ]
\* "Update the best performing point, if necessary."
UpdateBest(d, trial, perf) ==
    IF DGt(d.best_perf[d.phase + 1], perf[d.phase + 1])
    THEN [ d EXCEPT !.best_perf = perf, !.best = trial.point ]
    ELSE d
\* hperf_copy(&next->perf, &trial->perf), the penalty added
WritePerf(d, perf, representable) ==
    [ SetNext(d, [ NextVertex(d) EXCEPT !.perf = perf ])
      EXCEPT !.lossless = d.lossless /\ representable ]
\* if (data->state != SIMPLEX_STATE_CONVERGED) ++data->next_id;
CountId(d) ==
    IF d.state # CONVERGED THEN [ d EXCEPT !.next_id = d.next_id + 1 ] ELSE d
AnalyzePenalised(d, trial, perf) ==
    CountId(nm_algorithm(UpdateBest(
        WritePerf(d, perf, PenaltyRepresentable(d, trial.perf)), trial, perf)))
AnalyzeSpanned(d, trial) == AnalyzePenalised(d, trial, Penalised(d, trial.perf))
AnalyzeAccepted(d, trial) ==
    AnalyzeSpanned([ d EXCEPT !.span = SpanUpdate(d.span, trial.perf) ], trial)
\* analyze without the test of the trial's id
strategy_analyze_any(d, trial) == AnalyzeAccepted(d, trial)
strategy_analyze(d, trial) ==
    IF AnalyzeRogue(d, trial) THEN d ELSE AnalyzeAccepted(d, trial)

\* ======================================================================= PRO
EXPAND_ONE == "EXPAND_ONE"
EXPAND_ALL == "EXPAND_ALL"
INFINITY == HUGE_VAL
reflect_coefficient == << 1, 1 >>
expand_coefficient  == << 2, 1 >>
shrink_coefficient  == << 1, 2 >>
converge_fv_tol == << 1, 10000 >>     \* 1e-4
converge_sz_frac == << 5, 1000 >>     \* 0.5% of dist(vertex_min, vertex_max)
\* PRO_SIMPLEX_SIZE of the searches modelled (at least range_len + 1)
ProSizes == { SpaceLen + 1 }
\* simplex_from_vertex(): the initial reference simplexes of the searches modelled
ProInitTerms == { << Unit, 2 * Unit >>, << Unit \div 2, 0 >> }

\* ----------------------------------------------------- PRO: strategy_cfg
\* the session's configuration: a coefficient key is unset or holds a number
Unset == << >>
ProKeys == { "PRO_REFLECT", "PRO_EXPAND", "PRO_CONTRACT", "PRO_SHRINK" }
CoefVals == { << k, 2 >> : k \in 0..CoefMax }
NoCfg == [ key \in ProKeys |-> Unset ]
QLeInt(q, n) == q[1] <= n * q[2]
QGeInt(q, n) == q[1] >= n * q[2]
\* the tests strategy_cfg makes, in its order, once reflect_coefficient holds r
CfgTests(cfg, r) ==
    IF cfg["PRO_REFLECT"] # Unset /\ QLeInt(r, 0) THEN -1
    ELSE IF cfg["PRO_EXPAND"] # Unset /\ QLeInt(r, 1) THEN -1
    ELSE IF cfg["PRO_CONTRACT"] # Unset /\ (QLeInt(r, 0) \/ QGeInt(r, 1)) THEN -1
    ELSE IF cfg["PRO_SHRINK"] # Unset /\ (QLeInt(r, 0) \/ QGeInt(r, 1)) THEN -1
    ELSE 0
strategy_cfg(cfg) ==
    CfgTests(cfg, IF cfg["PRO_REFLECT"] # Unset THEN cfg["PRO_REFLECT"]
                  ELSE reflect_coefficient)

\* ------------------------------------------------ libvertex (PRO, 4.5 API)
\* result = wrt + c * (src - wrt); a transformed vertex is unmeasured
ProTransformExact(src, wrt, q) == ((src.term - wrt.term) * q[1]) % q[2] = 0
pro_vertex_transform(src, wrt, q, result) ==
    [ result EXCEPT !.term = wrt.term + ((src.term - wrt.term) * q[1]) \div q[2],
                    !.perf = INFINITY ]
pro_simplex_transform(src, wrt, q, result) ==
    [ i \in DOMAIN src |-> pro_vertex_transform(src[i], wrt, q, result[i]) ]
ProSimplexExact(src, wrt, q) == \A i \in DOMAIN src : ProTransformExact(src[i], wrt, q)
simplex_outofbounds(s) == \A i \in DOMAIN s : ~vertex_inbounds(s[i])
vertex_to_hpoint(v) == [ id |-> v.id, term |-> Align(v.term) ]

\* ------------------------------------------------- PRO: check_convergence
\* with S the sum of the n vertices that count and F the sum of their values:
\* sz_max < converge_sz_tol and fv_err < converge_fv_tol, cleared of fractions
ProSizeSmall(p) ==
    LET I == { i \in DOMAIN p.base : p.base[i].id # 0 }
        n == Cardinality(I)
        S == SumTerm(p.base, I)
    IN  /\ n > 0
        /\ \A i \in DOMAIN p.base :
               Abs(n * p.base[i].term - S) * converge_sz_frac[2]
                   < converge_sz_frac[1] * TermMax * n
ProFvalSmall(p) ==
    LET I == { i \in DOMAIN p.base : p.base[i].id # 0 }
        n == Cardinality(I)
        F == SumTerm([ i \in DOMAIN p.base |-> [ term |-> p.base[i].perf ] ], I)
        sq == [ i \in DOMAIN p.base |->
                  [ term |-> (n * p.base[i].perf - F) * (n * p.base[i].perf - F) ] ]
    IN  /\ n > 0
        /\ \A i \in DOMAIN p.base : IsFin(p.base[i].perf)
        /\ SumTerm(sq, DOMAIN p.base)
               < converge_fv_tol[1] * n * n * p.simplex_size
                   * ((PerfUnit * PerfUnit) \div converge_fv_tol[2])
pro_check_convergence(p) ==
    IF simplex_collapsed(p.base) \/ (ProFvalSmall(p) /\ ProSizeSmall(p))
    THEN [ p EXCEPT !.state = CONVERGED, !.CONVERGED = 1 ]
    ELSE p

\* ---------------------------------------------------- PRO: pro_next_state
\* case INIT, SHRINK with a test whether the candidate is better
ProAcceptedIfBetter(p, input, best_in) ==
    [ (IF input[best_in + 1].perf < p.base[p.best_base + 1].perf
       THEN [ p EXCEPT !.base = input, !.best_base = best_in ]
       ELSE p)
      EXCEPT !.state = REFLECT ]
\* case SIMPLEX_STATE_INIT, SIMPLEX_STATE_SHRINK
ProAccepted(p, input, best_in) ==
    [ p EXCEPT !.base = input, !.best_base = best_in, !.state = REFLECT ]
\* case REFLECT without its test: the reflected simplex is always accepted
ProReflectedTaken(p, input, best_in) ==
    [ p EXCEPT !.base = input, !.best_stash = p.best_test, !.state = EXPAND_ONE ]
\* case SIMPLEX_STATE_REFLECT
ProReflected(p, input, best_in) ==
    IF input[best_in + 1].perf < p.base[p.best_base + 1].perf
    THEN [ p EXCEPT !.base = input, !.best_stash = p.best_test, !.state = EXPAND_ONE ]
    ELSE [ p EXCEPT !.state = SHRINK ]
\* case SIMPLEX_STATE_EXPAND_ONE
ProExpandedOne(p, input, best_in) ==
    IF input[1].perf < p.base[p.best_base + 1].perf
    THEN [ p EXCEPT !.state = EXPAND_ALL ]
    ELSE [ p EXCEPT !.best_base = best_in, !.state = REFLECT ]
\* case EXPAND_ALL without its test: the expanded simplex is always accepted
ProExpandedAllTaken(p, input, best_in) ==
    [ p EXCEPT !.base = input, !.best_base = best_in, !.state = REFLECT ]
\* case SIMPLEX_STATE_EXPAND_ALL
ProExpandedAll(p, input, best_in) ==
    [ (IF input[best_in + 1].perf < p.base[p.best_base + 1].perf
       THEN [ p EXCEPT !.base = input, !.best_base = best_in ]
       ELSE p)
      EXCEPT !.state = REFLECT ]
pro_next_state(p, input, best_in) ==
    CASE p.state \in { INIT, SHRINK } -> ProAccepted(p, input, best_in)
      [] p.state = REFLECT -> ProReflected(p, input, best_in)
      [] p.state = EXPAND_ONE -> ProExpandedOne(p, input, best_in)
      [] p.state = EXPAND_ALL -> ProExpandedAll(p, input, best_in)

\* -------------------------------------------------- PRO: pro_next_simplex
pro_next_simplex(p) ==
    LET pivot == p.base[p.best_base + 1]
        all(q) == [ p EXCEPT !.test = pro_simplex_transform(p.base, pivot, q, p.test),
                             !.lossless = p.lossless /\ ProSimplexExact(p.base, pivot, q) ]
    IN  CASE p.state = INIT -> [ p EXCEPT !.test = p.base ]
          [] p.state = REFLECT -> all(Neg(reflect_coefficient))
          [] p.state = EXPAND_ONE ->
               [ p EXCEPT
                   !.test = [ i \in DOMAIN p.test |->
                                IF i = 1
                                THEN pro_vertex_transform(p.test[p.best_test + 1], pivot,
                                                          expand_coefficient, p.test[1])
                                ELSE pivot ],
                   !.lossless = p.lossless
                       /\ ProTransformExact(p.test[p.best_test + 1], pivot,
                                            expand_coefficient) ]
          [] p.state = EXPAND_ALL -> all(expand_coefficient)
          [] p.state = SHRINK -> all(shrink_coefficient)
          [] p.state = CONVERGED -> p

\* ----------------------------------------------------- PRO: pro_algorithm
ProStep(p) ==
    LET p1 == pro_next_state(p, p.test, p.best_test)
        p2 == IF p1.state = REFLECT THEN pro_check_convergence(p1) ELSE p1
    IN  pro_next_simplex(p2)
\* do { if (state == CONVERGED) break; ... } while (simplex_outofbounds(test))
RECURSIVE ProLoop(_, _)
ProLoop(p, n) ==
    IF p.state = CONVERGED THEN p
    ELSE IF n = 0 THEN [ p EXCEPT !.spinning = TRUE ]
    ELSE LET p1 == ProStep(p)
         IN  IF ~simplex_outofbounds(p1.test) \/ ~p1.lossless THEN p1
             ELSE ProLoop(p1, n - 1)
\* the loop without its test for CONVERGED: a converged search starts over
pro_algorithm_restart(p) ==
    [ ProLoop([ p EXCEPT !.state = IF p.state = CONVERGED THEN INIT ELSE p.state ],
              MaxLoop)
      EXCEPT !.runs = p.runs + 1 ]
pro_algorithm(p) == [ ProLoop(p, MaxLoop) EXCEPT !.runs = p.runs + 1 ]

\* ----------------------------------------------------- PRO: strategy_init
pro_strategy_init(simplex_size, terms) ==
    LET v(i) == Vertex(0, terms[IF i <= Len(terms) THEN i ELSE Len(terms)], INFINITY)
        base == [ i \in 1..simplex_size |-> v(i) ]
    IN  pro_next_simplex(
          [ simplex_size |-> simplex_size,
            state |-> INIT,
            base |-> base,
            test |-> [ i \in 1..simplex_size |-> Vertex(0, 0, INFINITY) ],
            best_base |-> 0,
            best_test |-> 0,
            best_stash |-> 0,
            next_id |-> 1,
            send_idx |-> 0,
            reported |-> 0,
            strategy_best |-> [ id |-> 0, term |-> 0 ],
            strategy_best_perf |-> INFINITY,
            CONVERGED |-> 0,          \* session configuration key
            runs |-> 0,               \* calls of pro_algorithm so far
            lossless |-> TRUE,
            spinning |-> FALSE ])

\* ---------------------------------------------------- PRO: strategy_fetch
\* BUSY while the last vertex is still to be handed out
FetchBusyEarly(p) == p.send_idx >= p.simplex_size - 1
FetchBusy(p) == p.send_idx = p.simplex_size
strategy_fetch(p) ==
    IF FetchBusy(p) THEN p
    ELSE [ p EXCEPT !.test[p.send_idx + 1].id = p.next_id,
                    !.next_id = p.next_id + 1,
                    !.send_idx = p.send_idx + 1 ]
FetchCand(p) == vertex_to_hpoint(strategy_fetch(p).test[p.send_idx + 1])

\* --------------------------------------------------- PRO: strategy_report
\* the first i with cand.id = test->vertex[i]->id, or simplex_size
RECURSIVE ReportIndex(_, _, _)
ReportIndex(p, id, i) ==
    IF i = p.simplex_size \/ p.test[i + 1].id = id THEN i
    ELSE ReportIndex(p, id, i + 1)
\* ++reported; test->vertex[i]->perf = perf; if (... < ...) best_test = i;
ReportStored(p, i, perf) ==
    [ p EXCEPT !.reported = p.reported + 1,
               !.test[i + 1].perf = perf,
               !.best_test = IF i # p.best_test /\ perf < p.test[p.best_test + 1].perf
                             THEN i ELSE p.best_test ]
ReportMatched(p, i, cand, perf) ==
    LET p2 == ReportStored(p, i, perf)
        p3 == IF p2.reported = p2.simplex_size
              THEN [ pro_algorithm(p2) EXCEPT !.reported = 0, !.send_idx = 0 ]
              ELSE p2
    IN  IF p3.strategy_best_perf > perf
        THEN [ p3 EXCEPT !.strategy_best_perf = perf, !.strategy_best = cand ]
        ELSE p3
\* report without the test for a rogue id: an unknown id counts for vertex 0
strategy_report_any(p, cand, perf) ==
    LET i == ReportIndex(p, cand.id, 0)
    IN  ReportMatched(p, IF i = p.simplex_size THEN 0 ELSE i, cand, perf)
strategy_report(p, cand, perf) ==
    LET i == ReportIndex(p, cand.id, 0)
    IN  IF i = p.simplex_size THEN p ELSE ReportMatched(p, i, cand, perf)
strategy_report_status(p, cand, perf) == "OK"

\* ================================================================ EXHAUSTIVE
\* the search space: two finite integer dimensions
ExhSpace == << [ min |-> 0, step |-> 1, limit |-> DimLen ],
               [ min |-> 1, step |-> 2, limit |-> DimLen ] >>
\* the number of values of a finite dimension
hrange_limit(dim) == dim.limit
\* the value at an index of a finite dimension
hrange_value(dim, index) == dim.min + index * dim.step
\* the trial's objectives as one number
hperf_unify(perf) == SumTerm([ i \in DOMAIN perf |-> [ term |-> perf[i] ] ], DOMAIN perf)
make_hpoint(unit) == [ i \in DOMAIN unit |-> hrange_value(ExhSpace[i], unit[i]) ]

\* ------------------------------------------------- EXHAUSTIVE: increment
\* All values overflowed.
PassDone(d, left) ==
    [ d EXCEPT !.remaining_passes = left,
               !.final_id = IF left <= 0 THEN d.next_id ELSE d.final_id ]
RECURSIVE IncrementFrom(_, _)
IncrementFrom(d, i) ==
    IF i > Len(d.next) THEN PassDone(d, d.remaining_passes - 1)
    ELSE IF d.next[i] + 1 = d.wrap[i]
    THEN IncrementFrom([ d EXCEPT !.next[i] = 0 ], i + 1)
    ELSE [ d EXCEPT !.next[i] = d.next[i] + 1 ]
increment(d) == IF d.remaining_passes <= 0 THEN d ELSE IncrementFrom(d, 1)

\* ---------------------------------------------- EXHAUSTIVE: strategy_init
exh_alloc_data ==
    [ best |-> [ id |-> 0, term |-> << >> ],
      best_perf |-> HUGE_VAL,
      head |-> << >>,
      next |-> << >>,
      next_id |-> 1,
      wrap |-> << >>,
      remaining_passes |-> 0,
      final_id |-> 0,
      outstanding_points |-> 0,
      final_point_received |-> 0,
      state |-> "NONE",
      PASSES |-> 1,               \* session configuration key
      CONVERGED |-> 0 ]           \* session configuration key
\* PASSES is set to passes, INIT_POINT is not set: memset(data->head, 0, ...)
exh_config_strategy(d, passes) ==
    [ d EXCEPT !.PASSES = passes,
               !.remaining_passes = passes,
               !.head = [ i \in DOMAIN ExhSpace |-> 0 ] ]
ExhInitNext(d) ==
    [ d EXCEPT !.wrap = [ i \in DOMAIN ExhSpace |-> hrange_limit(ExhSpace[i]) ],
               !.next = d.head,
               !.CONVERGED = 0 ]
exh_strategy_init(d, passes) == ExhInitNext(exh_config_strategy(d, passes))

\* ------------------------------------------ EXHAUSTIVE: strategy_generate
\* if (!data->final_id || data->next_id <= data->final_id) ++outstanding_points;
CountOutstanding(d) ==
    IF d.final_id = 0 \/ d.next_id <= d.final_id
    THEN [ d EXCEPT !.outstanding_points = d.outstanding_points + 1 ]
    ELSE d
CountId_exh(d) == [ d EXCEPT !.next_id = d.next_id + 1 ]
exh_strategy_generate(d) ==
    CountOutstanding(IF d.remaining_passes > 0 THEN CountId_exh(increment(d)) ELSE d)
ExhGenerated(d) ==
    IF d.remaining_passes > 0
    THEN [ id |-> d.next_id, term |-> make_hpoint(d.next) ]
    ELSE d.best

\* ------------------------------------------ EXHAUSTIVE: strategy_rejected
exh_strategy_rejected(d, hint) == IF hint.id # 0 THEN d ELSE increment(d)
ExhRejected(d, pt, hint) ==
    IF hint.id # 0 THEN [ hint EXCEPT !.id = pt.id ]
    ELSE [ pt EXCEPT !.term = make_hpoint(d.next) ]

\* ------------------------------------------- EXHAUSTIVE: strategy_analyze
ExhBest(d, trial, perf) ==
    IF d.best_perf > perf
    THEN [ d EXCEPT !.best_perf = perf, !.best = trial.point ]
    ELSE d
\* if (trial->point.id == data->final_id) session_setcfg(CFGKEY_CONVERGED, "1");
ExhFinalSeen(d, trial) ==
    IF trial.point.id = d.final_id THEN [ d EXCEPT !.CONVERGED = 1 ] ELSE d
ExhCountDown(d, trial) ==
    IF d.final_id = 0 \/ trial.point.id <= d.final_id
    THEN [ d EXCEPT !.outstanding_points = d.outstanding_points - 1 ]
    ELSE d
ExhFinalReceived(d, trial) ==
    IF trial.point.id = d.final_id THEN [ d EXCEPT !.final_point_received = 1 ] ELSE d
ExhConverged(d) ==
    IF d.outstanding_points <= 0 /\ d.final_point_received # 0
    THEN [ d EXCEPT !.CONVERGED = 1 ]
    ELSE d
exh_strategy_analyze(d, trial) ==
    ExhConverged(ExhFinalReceived(ExhCountDown(ExhFinalSeen(
        ExhBest(d, trial, hperf_unify(trial.perf)), trial), trial), trial))

\* ===================================================================== state
VARIABLES
    strategy,   \* the strategy plug-in the session loaded: "angel" or "pro"
    data,       \* ANGEL: the data_t instance, check_convergence's statics, cfg keys
    last,       \* the host's last call: operation, return value, flow status
    point,      \* the point the last generate/rejected handed to the host
    max_gen,    \* ANGEL: highest id generate has returned with ACCEPT, 0 if none
    inflight,   \* ANGEL: id of the point handed out and not yet analysed, or 0
    rejects,    \* ANGEL: number of rejected calls so far
    hist,       \* ANGEL: least penalised obj[phase] analysed in this phase, and the
                \*        ids of the points that attained it
    pro,        \* PRO: the plug-in's globals and the CONVERGED cfg key
    measured,   \* PRO: the vertices of the candidate simplex that were fetched and
                \*      then reported, and the round (pro.runs) they belong to
    strays,     \* PRO: number of reports so far that matched a vertex which was
                \*      not fetched in this round or was reported already
    exh         \* EXHAUSTIVE: the coordinates handed out by generate during the
                \*      passes and by rejected, in order; the points awaiting
                \*      analysis that were generated during the passes (waiting)
                \*      and after them (late); the ids analysed; the number of
                \*      generate calls made after the passes
vars == << strategy, data, last, point, max_gen, inflight, rejects, hist, pro, measured,
           strays, exh >>

PerfVals == { p * PerfUnit : p \in 0..MaxPerf }
\* the performance vectors the host reports: the second objective falls as the
\* first one rises
Trials(perf_n) ==
    { [ k \in 1..perf_n |-> IF k % 2 = 1 THEN p ELSE MaxPerf * PerfUnit - p ] :
        p \in PerfVals }
NoPoint == [ id |-> 0, term |-> 0 ]
NoHist == [ min |-> HUGE_VAL, ids |-> {} ]
Call(op, ret, status, rogue) ==
    [ op |-> op, ret |-> ret, status |-> status, rogue |-> rogue ]
\* a rejected call and the hint flow->point carried
CallRejected(hint) ==
    [ op |-> "rejected", ret |-> 0, status |-> "ACCEPT", rogue |-> FALSE, hint |-> hint ]
NoData == [ state |-> "NONE", CONVERGED |-> 0 ]
NoPro == [ state |-> "NONE", CONVERGED |-> 0 ]
NoMeasured == [ run |-> 0, idx |-> {} ]
NoExh == [ given |-> << >>, waiting |-> {}, late |-> {}, analysed |-> {}, extra |-> 0 ]
Record(h, id, value) ==
    IF value < h.min THEN [ min |-> value, ids |-> { id } ]
    ELSE IF value = h.min THEN [ h EXCEPT !.ids = h.ids \cup { id } ]
    ELSE h

AngelInit ==
    /\ strategy = "angel"
    /\ \E cfg \in Configs, terms \in InitTerms :
           data = strategy_init(cfg[1], cfg[2], terms)
    /\ last = Call("init", 0, "NONE", FALSE)
    /\ point = NoPoint
    /\ max_gen = 0
    /\ inflight = 0
    /\ rejects = 0
    /\ hist = NoHist
    /\ pro = NoPro
    /\ measured = NoMeasured
    /\ strays = 0
    /\ exh = NoExh

\* the host calls strategy_generate(flow, point)
AngelGenerate ==
    /\ strategy = "angel"
    /\ data' = strategy_generate(data)
    /\ IF GenerateWaits(data)
       THEN /\ last' = Call("generate", 0, "WAIT", FALSE)
            /\ UNCHANGED << point, max_gen, inflight >>
       ELSE /\ last' = Call("generate", 0, "ACCEPT", FALSE)
            /\ point' = vertex_point(NextVertex(data'))
            /\ max_gen' = IF point'.id > max_gen THEN point'.id ELSE max_gen
            /\ inflight' = point'.id
    /\ UNCHANGED << strategy, rejects, hist, pro, measured, strays, exh >>

\* the trial the host hands to analyze: the coordinates it was given, an id
\* and the measured performance
Trial(id, perf) ==
    [ point |-> [ id |-> id, term |-> Align(NextVertex(data).term) ], perf |-> perf ]
\* the call returned ret and left the search data d; value is the penalised
\* obj[phase] it wrote
Analyzed(id, d, ret, value) ==
    /\ d.lossless /\ ~d.spinning
    /\ data' = d
    /\ last' = Call("analyze", ret, "NONE", id # NextVertex(data).id)
    /\ inflight' = IF ret = 0 /\ id = inflight THEN 0 ELSE inflight
    /\ hist' = IF ret # 0 THEN hist
               ELSE IF d.phase # data.phase THEN NoHist
               ELSE Record(hist, id, value)
\* the host calls strategy_analyze(trial) with a measured performance
AnalyzeUpTo(id, perf, max_id) ==
    /\ strategy = "angel"
    /\ data.next_id <= max_id
    /\ Analyzed(id, strategy_analyze(data, Trial(id, perf)),
                 strategy_analyze_ret(data, Trial(id, perf)),
                 Penalised([ data EXCEPT !.span = SpanUpdate(data.span, perf) ],
                           perf)[data.phase + 1])
    /\ UNCHANGED << strategy, point, max_gen, rejects, pro, measured, strays, exh >>
AngelAnalyze(id, perf) == AnalyzeUpTo(id, perf, MaxId)

\* the call left the search data d and returned the point pt
Rejected(d, pt) ==
    /\ d.lossless /\ ~d.spinning
    /\ data' = d
    /\ point' = pt
    /\ inflight' = pt.id
    /\ hist' = IF d.phase # data.phase THEN NoHist ELSE hist
\* the host calls strategy_rejected(flow, point) for the outstanding point
RejectedUpTo(hint, random, max_rejects) ==
    /\ strategy = "angel"
    /\ inflight # 0
    /\ rejects < max_rejects
    /\ Rejected(strategy_rejected(data, point, hint, random),
                 RejectedPoint(data, point, hint, random))
    /\ last' = CallRejected(hint)
    /\ rejects' = rejects + 1
    /\ UNCHANGED << strategy, max_gen, pro, measured, strays, exh >>
AngelRejected(hint, random) == RejectedUpTo(hint, random, MaxRejects)

\* the host calls strategy_init(space) for the instance it is searching with.
\* The call is followed while data->phase stays an index of the objectives;
\* beyond that increment_phase() writes thresh[] past its end.
AngelReinit ==
    /\ strategy = "angel"
    /\ data.phase + 1 < data.perf_n
    /\ data' = strategy_reinit(data)
    /\ last' = Call("init", 0, "NONE", FALSE)
    /\ point' = NoPoint
    /\ max_gen' = 0
    /\ inflight' = 0
    /\ hist' = NoHist
    /\ UNCHANGED << strategy, rejects, pro, measured, strays, exh >>

\* flow->point: no hint, or a hint at one of the two lowest legal values
Hints == { NoHint } \cup { [ id |-> 1, term |-> t ] : t \in { 0, Unit } }
\* trial ids the host reports: the outstanding point's, or a rogue one
TrialIds == { inflight, MaxId + 1 } \ { 0 }

AngelNext ==
    \/ AngelGenerate
    \/ \E id \in TrialIds, perf \in Trials(data.perf_n) :
           AngelAnalyze(id, perf)
    \/ \E hint \in Hints, random \in Legal : AngelRejected(hint, random)

SpecAngel == AngelInit /\ [][AngelNext]_vars

\* a search of two objectives from a narrow initial simplex, no point rejected,
\* followed for MaxFlatId points: long enough for a shrink and a second phase
FlatInitTerms == << Unit, Unit + Unit \div 2 >>
AngelFlatInit ==
    /\ strategy = "angel"
    /\ data = strategy_init(2, REJECT_METHOD_PENALTY, FlatInitTerms)
    /\ last = Call("init", 0, "NONE", FALSE)
    /\ point = NoPoint
    /\ max_gen = 0
    /\ inflight = 0
    /\ rejects = 0
    /\ hist = NoHist
    /\ pro = NoPro
    /\ measured = NoMeasured
    /\ strays = 0
    /\ exh = NoExh
AngelFlatAnalyze(id, perf) == AnalyzeUpTo(id, perf, MaxFlatId)
AngelFlatNext ==
    \/ AngelGenerate
    \/ \E id \in { inflight, MaxFlatId + 1 } \ { 0 }, perf \in Trials(data.perf_n) :
           AngelFlatAnalyze(id, perf)
SpecAngelFlat == AngelFlatInit /\ [][AngelFlatNext]_vars

\* a search of two objectives under the penalty method in which the host may
\* reject MaxPhaseRejects points: enough to reject every point of a phase
AngelRejInit ==
    /\ strategy = "angel"
    /\ \E terms \in InitTerms : data = strategy_init(2, REJECT_METHOD_PENALTY, terms)
    /\ last = Call("init", 0, "NONE", FALSE)
    /\ point = NoPoint
    /\ max_gen = 0
    /\ inflight = 0
    /\ rejects = 0
    /\ hist = NoHist
    /\ pro = NoPro
    /\ measured = NoMeasured
    /\ strays = 0
    /\ exh = NoExh
AngelRejNext ==
    \/ AngelGenerate
    \/ \E id \in TrialIds, perf \in Trials(data.perf_n) : AngelAnalyze(id, perf)
    \/ \E hint \in Hints, random \in Legal :
           RejectedUpTo(hint, random, MaxPhaseRejects)
SpecAngelRej == AngelRejInit /\ [][AngelRejNext]_vars

\* the penalty of strategy_analyze on its own: a search of MaxObjectives
\* objectives in one of its later phases, every earlier objective observed over
\* 0..2 * PenaltyDen and its threshold at leeway 0.5 of that span; the host
\* reports two points, whose earlier objectives sit at their minimum or exceed
\* the threshold by 1 or by PenaltyDen
PenaltyDen == Len(LnMilli)
PenaltyData(phase) ==
    [ phase |-> phase,
      perf_n |-> MaxObjectives,
      span |-> [ k \in 1..MaxObjectives |-> [ min |-> 0, max |-> 2 * PenaltyDen ] ],
      thresh |-> [ k \in 1..(MaxObjectives - 1) |->
                     IF k <= phase THEN PenaltyDen ELSE NAN ] ]
PenaltyPerfs ==
    [ 1..MaxObjectives -> { 0, PenaltyDen + 1, 2 * PenaltyDen } ]
Unscored == [ perf |-> << >>, penalty |-> 0 ]
Scored(perf) ==
    [ perf |-> perf, penalty |-> PenaltyMilli(data, perf, data.phase - 1, 1) ]
PenaltyInit ==
    /\ strategy = "penalty"
    /\ \E phase \in 1..(MaxObjectives - 1) : data = PenaltyData(phase)
    /\ last = Call("init", 0, "NONE", FALSE)
    /\ point = Unscored
    /\ hist = Unscored
    /\ max_gen = 0
    /\ inflight = 0
    /\ rejects = 0
    /\ pro = NoPro
    /\ measured = NoMeasured
    /\ strays = 0
    /\ exh = NoExh
PenaltyFirst(perf) ==
    /\ strategy = "penalty"
    /\ point = Unscored
    /\ point' = Scored(perf)
    /\ UNCHANGED << strategy, data, last, hist, max_gen, inflight, rejects, pro,
                    measured, strays, exh >>
PenaltySecond(perf) ==
    /\ strategy = "penalty"
    /\ point # Unscored
    /\ hist = Unscored
    /\ hist' = Scored(perf)
    /\ UNCHANGED << strategy, data, last, point, max_gen, inflight, rejects, pro,
                    measured, strays, exh >>
PenaltyNext ==
    \/ \E perf \in PenaltyPerfs : PenaltyFirst(perf)
    \/ \E perf \in PenaltyPerfs : PenaltySecond(perf)
SpecPenalty == PenaltyInit /\ [][PenaltyNext]_vars

\* a search with DIST_TOL and TOL_CNT configured
AngelTolInit ==
    /\ strategy = "angel"
    /\ \E cfg \in Configs, terms \in InitTerms, cfgval \in DistTols, n \in TolCnts :
           data = ConfigTol(strategy_init(cfg[1], cfg[2], terms), cfgval, n)
    /\ last = Call("init", 0, "NONE", FALSE)
    /\ point = NoPoint
    /\ max_gen = 0
    /\ inflight = 0
    /\ rejects = 0
    /\ hist = NoHist
    /\ pro = NoPro
    /\ measured = NoMeasured
    /\ strays = 0
    /\ exh = NoExh
SpecAngelTol == AngelTolInit /\ [][AngelNext]_vars

\* a session that may initialise its search instance again
SpecAngelReinit == AngelInit /\ [][AngelNext \/ AngelReinit]_vars

\* ------------------------------------------------------------ PRO session
ProInit ==
    /\ strategy = "pro"
    /\ \E size \in ProSizes, terms \in ProInitTerms :
           pro = pro_strategy_init(size, terms)
    /\ last = Call("init", 0, "NONE", FALSE)
    /\ point = NoPoint
    /\ measured = NoMeasured
    /\ strays = 0
    /\ exh = NoExh
    /\ data = NoData
    /\ max_gen = 0
    /\ inflight = 0
    /\ rejects = 0
    /\ hist = NoHist

\* the host calls strategy_fetch(mesg)
ProFetch ==
    /\ strategy = "pro"
    /\ pro' = strategy_fetch(pro)
    /\ IF FetchBusy(pro)
       THEN /\ last' = Call("fetch", 0, "BUSY", FALSE)
            /\ point' = point
       ELSE /\ last' = Call("fetch", 0, "OK", FALSE)
            /\ point' = FetchCand(pro)
    /\ UNCHANGED << strategy, data, max_gen, inflight, rejects, hist, measured, strays, exh >>

\* the host calls strategy_report(mesg) with a candidate id and a performance
ProReport(id, perf) ==
    /\ strategy = "pro"
    /\ pro.runs < MaxRuns
    /\ LET i == ReportIndex(pro, id, 0)
           rogue == \A k \in DOMAIN pro.test : pro.test[k].id # id
           cand == [ id |-> id,
                     term |-> IF rogue THEN 0 ELSE Align(pro.test[i + 1].term) ]
           p == strategy_report(pro, cand, perf)
           sofar == IF measured.run = pro.runs THEN measured.idx ELSE {}
           stray == ~rogue /\ (i >= pro.send_idx \/ i \in sofar)
       IN  /\ stray => strays < MaxStrays
           /\ p.lossless /\ ~p.spinning
           /\ pro' = p
           /\ last' = Call("report", 0, strategy_report_status(pro, cand, perf), rogue)
           /\ measured' = IF rogue \/ stray THEN measured
                          ELSE [ run |-> pro.runs, idx |-> sofar \cup { i } ]
           /\ strays' = IF stray THEN strays + 1 ELSE strays
    /\ UNCHANGED << strategy, data, point, max_gen, inflight, rejects, hist, exh >>

\* the performances the host reports for PRO's points: ties and strict orders
ProPerfVals == { PerfUnit, 2 * PerfUnit }
\* candidate ids the host reports: an id some vertex of the candidate simplex
\* carries (fetched in this round or not, reported already or not), or an id
\* that was never handed out
ReportIds == ({ pro.test[k].id : k \in DOMAIN pro.test } \ { 0 }) \cup { pro.next_id }

ProNext ==
    \/ ProFetch
    \/ \E id \in ReportIds, perf \in ProPerfVals : ProReport(id, perf)

SpecPro == ProInit /\ [][ProNext]_vars

\* ------------------------------------------------- PRO: configuration
\* a session that sets coefficient keys and then loads the PRO strategy
ProCfgStart ==
    /\ strategy = "pro_cfg"
    /\ pro = [ state |-> "NONE", CONVERGED |-> 0, cfg |-> NoCfg ]
    /\ last = Call("none", 0, "NONE", FALSE)
    /\ point = NoPoint
    /\ measured = NoMeasured
    /\ strays = 0
    /\ exh = NoExh
    /\ data = NoData
    /\ max_gen = 0
    /\ inflight = 0
    /\ rejects = 0
    /\ hist = NoHist
\* the client sets a coefficient key
ProCfgSet(key, val) ==
    /\ strategy = "pro_cfg"
    /\ pro' = [ pro EXCEPT !.cfg[key] = val ]
    /\ last' = Call("setcfg", 0, "NONE", FALSE)
    /\ UNCHANGED << strategy, data, point, max_gen, inflight, rejects, hist, measured,
                    strays, exh >>
\* the session calls strategy_init(mesg), which calls strategy_cfg(mesg)
ProCfgLoad ==
    /\ strategy = "pro_cfg"
    /\ last' = Call("init", strategy_cfg(pro.cfg), "NONE", FALSE)
    /\ UNCHANGED << strategy, data, point, max_gen, inflight, rejects, hist, pro,
                    measured, strays, exh >>
ProCfgNext ==
    \/ \E key \in ProKeys, val \in CoefVals : ProCfgSet(key, val)
    \/ ProCfgLoad
SpecProCfg == ProCfgStart /\ [][ProCfgNext]_vars

\* ------------------------------------------------------ EXHAUSTIVE session
ExhInit ==
    /\ strategy = "exhaustive"
    /\ \E passes \in 1..MaxPasses : data = exh_strategy_init(exh_alloc_data, passes)
    /\ last = Call("init", 0, "NONE", FALSE)
    /\ point = NoPoint
    /\ exh = NoExh
    /\ rejects = 0
    /\ max_gen = 0
    /\ inflight = 0
    /\ hist = NoHist
    /\ pro = NoPro
    /\ measured = NoMeasured
    /\ strays = 0
\* the set of points awaiting analysis, pt replaced by q
Swap(S, pt, q) == IF pt \in S THEN (S \ { pt }) \cup { q } ELSE S
\* the host calls strategy_generate(flow, point)
ExhGenerate ==
    /\ strategy = "exhaustive"
    /\ Cardinality(exh.waiting) < MaxWaiting
    /\ data' = exh_strategy_generate(data)
    /\ point' = ExhGenerated(data)
    /\ last' = Call("generate", 0, "ACCEPT", FALSE)
    /\ IF data.remaining_passes > 0
       THEN exh' = [ exh EXCEPT !.given = Append(exh.given, point'.term),
                                !.waiting = exh.waiting \cup { point' } ]
       ELSE /\ exh.extra < MaxExtra
            /\ exh' = [ exh EXCEPT !.late = exh.late \cup { point' },
                                   !.extra = exh.extra + 1 ]
    /\ UNCHANGED << strategy, max_gen, inflight, rejects, hist, pro, measured, strays >>
\* the host calls strategy_rejected(flow, point) for the point it was just given
ExhReject(hint) ==
    /\ strategy = "exhaustive"
    /\ last.op \in { "generate", "rejected" }
    /\ point \in exh.waiting \cup exh.late
    /\ rejects < MaxRejects
    /\ data' = exh_strategy_rejected(data, hint)
    /\ point' = ExhRejected(data, point, hint)
    /\ last' = CallRejected(hint)
    /\ exh' = [ exh EXCEPT !.given = IF hint.id # 0 THEN exh.given
                                     ELSE Append(exh.given, point'.term),
                           !.waiting = Swap(exh.waiting, point, point'),
                           !.late = IF point \in exh.waiting THEN exh.late
                                    ELSE Swap(exh.late, point, point') ]
    /\ rejects' = rejects + 1
    /\ UNCHANGED << strategy, max_gen, inflight, hist, pro, measured, strays >>
\* the host calls strategy_analyze(trial) for any of the points awaiting analysis
ExhAnalyze(pt, perf) ==
    /\ strategy = "exhaustive"
    /\ pt \in exh.waiting \cup exh.late
    /\ data' = exh_strategy_analyze(data, [ point |-> pt, perf |-> perf ])
    /\ last' = Call("analyze", 0, "NONE", FALSE)
    /\ exh' = [ exh EXCEPT !.waiting = exh.waiting \ { pt },
                           !.late = IF pt \in exh.waiting THEN exh.late
                                    ELSE exh.late \ { pt },
                           !.analysed = exh.analysed \cup { pt.id } ]
    /\ UNCHANGED << strategy, point, max_gen, inflight, rejects, hist, pro, measured,
                    strays >>
\* flow->point: no hint, or a hint at the space's maximum
ExhHints == { [ id |-> 0, term |-> << >> ],
              [ id |-> 1, term |-> make_hpoint([ i \in DOMAIN ExhSpace |-> DimLen - 1 ]) ] }
ExhNext ==
    \/ ExhGenerate
    \/ \E hint \in ExhHints : ExhReject(hint)
    \/ \E pt \in exh.waiting \cup exh.late, perf \in Trials(1) : ExhAnalyze(pt, perf)
SpecExh == ExhInit /\ [][ExhNext]_vars

\* ------------------------------------------- a session with either strategy
Init == AngelInit \/ ProInit
Next ==
    \/ strategy = "angel" /\ AngelNext
    \/ strategy = "pro" /\ ProNext
Spec == Init /\ [][Next]_vars

\* ================================================================ properties
\* C1: ANGEL: over any sequence of generate, analyze and rejected calls after
\* one init, calls after convergence included, the ids of the points generate
\* returns with status ACCEPT are strictly increasing: every such id is larger
\* than every id generate returned before.
GenerateIdsIncrease ==
    [][ (strategy = "angel" /\ last'.op = "generate" /\ last'.status = "ACCEPT")
            => point'.id > max_gen ]_vars

\* C2: ANGEL: while a point generate handed out is outstanding (neither analysed
\* nor rejected since), every further generate call returns WAIT, hands out no
\* point and leaves the search data as they are.
OneInFlight ==
    [][ (strategy = "angel" /\ inflight # 0 /\ last'.op = "generate")
            => /\ last'.status = "WAIT"
               /\ point' = point
               /\ inflight' = inflight
               /\ data' = data ]_vars
OneInFlightSeen ==
    /\ strategy = "angel"
    /\ inflight # 0
    /\ last.op = "generate"
    /\ last.status = "WAIT"

\* C3: ANGEL: in every reachable state generate returns WAIT if and only if a
\* generated point is outstanding; with no point outstanding it returns ACCEPT.
WaitIffOutstanding ==
    strategy = "angel" => (GenerateWaits(data) <=> inflight # 0)

\* C4: ANGEL: analyze called with a trial whose point id differs from the id of
\* the pending candidate vertex returns -1 and changes nothing of the search
\* data (state, phase, simplex, scratch vertices, best point and performance,
\* spans, thresholds, next_id, pending candidate).
RogueAnalyzeIsNoOp ==
    [][ (strategy = "angel" /\ last'.op = "analyze" /\ last'.rogue)
            => (last'.ret = -1 /\ data' = data) ]_vars
RogueAnalyzeSeen ==
    /\ strategy = "angel"
    /\ last.op = "analyze"
    /\ last.rogue
    /\ last.ret = -1
    /\ inflight # 0
    /\ data.next_id > 1

\* C5: PRO: a report whose candidate id is the id of no vertex of the candidate
\* simplex returns status OK and leaves the whole search state unchanged
\* (state, both simplexes, best_base, best_test, reported, send_idx, next_id,
\* the recorded best point and best performance).
RogueReportIsNoOp ==
    [][ (strategy = "pro" /\ last'.op = "report" /\ last'.rogue)
            => (last'.status = "OK" /\ pro' = pro) ]_vars
RogueReportSeen ==
    /\ strategy = "pro"
    /\ last.op = "report"
    /\ last.rogue
    /\ pro.reported > 0
    /\ pro.send_idx > pro.reported

\* C6: PRO: pro_algorithm runs only when every vertex of the candidate simplex
\* has been fetched in this round and has had its performance reported.
AdvanceOnlyWhenAllMeasured ==
    [][ (strategy = "pro" /\ pro'.runs # pro.runs)
            => /\ pro.send_idx = pro.simplex_size
               /\ measured'.run = pro.runs
               /\ measured'.idx = { k - 1 : k \in DOMAIN pro.test } ]_vars

\* C7: PRO: for a fully fetched candidate simplex, the state reached after all
\* simplex_size reports (state, reference simplex, best_base, best_test, next
\* candidate simplex) is the same for any two orders of the same reports.
Orders(n) == { o \in [ 1..n -> 0..(n - 1) ] : \A a, b \in 1..n : o[a] = o[b] => a = b }
RECURSIVE ReportInOrder(_, _, _, _)
ReportInOrder(p, order, perfs, k) ==
    IF k > Len(order) THEN p
    ELSE LET i == order[k]
             cand == vertex_to_hpoint(p.test[i + 1])
         IN  ReportInOrder(strategy_report(p, cand, perfs[i + 1]), order, perfs, k + 1)
Outcome(p) ==
    [ state |-> p.state, base |-> p.base, best_base |-> p.best_base,
      best_test |-> p.best_test, test |-> p.test ]
ReportOrderIrrelevant ==
    (strategy = "pro" /\ pro.send_idx = pro.simplex_size /\ pro.reported = 0)
        => \A perfs \in [ 1..pro.simplex_size -> ProPerfVals ] :
             \A o1, o2 \in Orders(pro.simplex_size) :
                 LET p1 == ReportInOrder(pro, o1, perfs, 1)
                     p2 == ReportInOrder(pro, o2, perfs, 1)
                 IN  (p1.lossless /\ p2.lossless /\ ~p1.spinning /\ ~p2.spinning)
                         => Outcome(p1) = Outcome(p2)

\* C8: ANGEL: within one phase the stored best performance is the least
\* penalised obj[phase] of the points analysed so far in that phase, best holds
\* the id of a point that attained it, and best_perf.obj[phase] never increases
\* while the phase is unchanged.
BestIsPhaseMinimum ==
    /\ [](strategy = "angel"
            => /\ data.best_perf[data.phase + 1] = hist.min
               /\ hist.ids # {} => data.best.id \in hist.ids)
    /\ [][ (strategy = "angel" /\ data'.phase = data.phase)
              => ~DGt(data'.best_perf[data'.phase + 1],
                      data.best_perf[data.phase + 1]) ]_vars
BestIsPhaseMinimumSeen ==
    /\ strategy = "angel"
    /\ data.phase = 1
    /\ last.op = "analyze"
    /\ last.ret = 0
    /\ hist.ids # {}
    /\ data.best.id # point.id

\* C9: ANGEL: every point generate hands out with ACCEPT and every point
\* rejected returns, in each rejection mode and on hint adoption, lies within
\* the bounds of the search space.
EmittedInBounds ==
    (strategy = "angel" /\ last.op \in { "generate", "rejected" }
                        /\ last.status = "ACCEPT")
        => (point.term >= 0 /\ point.term <= TermMax)
EmittedInBoundsSeen ==
    /\ strategy = "angel"
    /\ last.op = "generate"
    /\ last.status = "ACCEPT"
    /\ max_gen > SimplexLen
    /\ data.state \in { EXPAND, CONTRACT }
    /\ point.term \in { 0, TermMax }

\* C10: CONVERGED is terminal in ANGEL and in PRO: once the state is CONVERGED
\* every later call leaves it CONVERGED and the CONVERGED key at 1.
ConvergedIsTerminal ==
    [][ /\ (strategy = "angel" /\ data.state = CONVERGED)
            => (data.CONVERGED = 1 /\ data'.state = CONVERGED /\ data'.CONVERGED = 1)
        /\ (strategy = "pro" /\ pro.state = CONVERGED)
            => (pro.CONVERGED = 1 /\ pro'.state = CONVERGED /\ pro'.CONVERGED = 1)
      ]_vars
ConvergedIsTerminalSeen ==
    /\ strategy = "pro"
    /\ pro.state = CONVERGED
    /\ pro.CONVERGED = 1
    /\ last.op = "report"
    /\ ~last.rogue
    /\ pro.reported = 1

\* C11: ANGEL: every successful init, a re-initialisation of an instance that
\* has been searching included, leaves a fresh search state: phase 0, state
\* INIT, vertex 0 of the initial simplex as first candidate (index_curr 0),
\* next_id 1, no best point, the convergence counters at zero and the
\* CONVERGED key at 0.
InitIsFresh ==
    (strategy = "angel" /\ last.op = "init")
        => /\ data.phase = 0
           /\ data.state = INIT
           /\ data.index_curr = 0
           /\ data.next = [ slot |-> "simplex", idx |-> 0 ]
           /\ data.next_id = 1
           /\ data.best.id = 0
           /\ data.flat_cnt = 0
           /\ data.cnt = 0
           /\ data.CONVERGED = 0
\* C12: ANGEL: rejected called with a hint returns the hint's coordinates under
\* the id of the rejected point, the pending candidate vertex takes the hint's
\* coordinates under that same id, and state, phase, index_curr and next_id
\* are unchanged.
HintIsAdopted ==
    [][ (strategy = "angel" /\ last'.op = "rejected" /\ last'.hint.id # 0)
            => /\ point' = [ id |-> point.id, term |-> last'.hint.term ]
               /\ NextVertex(data').id = point.id
               /\ NextVertex(data').term = last'.hint.term
               /\ data'.next = data.next
               /\ data'.state = data.state
               /\ data'.phase = data.phase
               /\ data'.index_curr = data.index_curr
               /\ data'.next_id = data.next_id ]_vars
HintIsAdoptedSeen ==
    /\ strategy = "angel"
    /\ last.op = "rejected"
    /\ last.hint.id # 0
    /\ last.hint.id # point.id
    /\ data.state = REFLECT
    /\ point.term = last.hint.term
    /\ NextVertex(data).term = last.hint.term
    /\ NextVertex(data).id = point.id
\* C13: ANGEL, penalty rejection: when the first generated point (vertex 0 of
\* the initial simplex) is rejected without a hint, the rejected vertex keeps
\* performance +infinity in the simplex, the point returned is that of another
\* simplex vertex, and the state is still INIT.
FirstPointRejected ==
    [][ (/\ strategy = "angel"
         /\ data.reject_type = REJECT_METHOD_PENALTY
         /\ data.state = INIT
         /\ data.phase = 0
         /\ data.next_id = 1
         /\ data.next = [ slot |-> "simplex", idx |-> 0 ]
         /\ data.simplex[1].term = data.init_simplex[1].term
         /\ last'.op = "rejected"
         /\ last'.hint.id = 0)
            => /\ data'.simplex[1].perf = hperf_reset(data.simplex[1].perf)
               /\ data'.simplex[1].term = data.simplex[1].term
               /\ data'.next.slot = "simplex"
               /\ data'.next.idx # 0
               /\ point' = vertex_point(data'.simplex[data'.next.idx + 1])
               /\ point'.term # point.term
               /\ data'.state = INIT ]_vars
FirstPointRejectedSeen ==
    /\ strategy = "angel"
    /\ data.reject_type = REJECT_METHOD_PENALTY
    /\ last.op = "rejected"
    /\ last.hint.id = 0
    /\ data.state = INIT
    /\ data.phase = 0
    /\ data.next = [ slot |-> "simplex", idx |-> 1 ]
    /\ data.simplex[1].id = 1
    /\ data.simplex[1].term = data.init_simplex[1].term
    /\ data.simplex[1].perf = hperf_reset(data.simplex[1].perf)
    /\ point = vertex_point(data.simplex[2])
\* C14: ANGEL: every analyze call and every penalty-mode rejected call
\* terminates: with a simplex vertex in bounds, the bounds loop of nm_algorithm
\* reaches an in-bounds candidate or the state CONVERGED within MaxLoop rounds.
BoundsLoopEnds ==
    (/\ strategy = "angel"
     /\ inflight # 0
     /\ \E i \in DOMAIN data.simplex : data.simplex[i].term \in 0..TermMax)
        => /\ \A perf \in Trials(data.perf_n) :
                 ~strategy_analyze(data, Trial(inflight, perf)).spinning
           /\ ~strategy_rejected(data, point, NoHint, 0).spinning
BoundsLoopEndsSeen ==
    /\ strategy = "angel"
    /\ last.op \in { "analyze", "rejected" }
    /\ last.ret = 0
    /\ data.state = CONTRACT
    /\ ~vertex_inbounds(data.reflect)
    /\ data.reflect.perf = hperf_reset(data.reflect.perf)
    /\ vertex_inbounds(NextVertex(data))
\* C15: ANGEL: after any sequence of generate, rejected and analyze calls the
\* id of the outstanding candidate is carried by exactly one vertex slot among
\* the simplex vertices and the reflect, expand and contract scratch vertices.
OutstandingIdInOneSlot ==
    (strategy = "angel" /\ inflight # 0)
        => Cardinality({ i \in DOMAIN data.simplex : data.simplex[i].id = inflight })
             + (IF data.reflect.id = inflight THEN 1 ELSE 0)
             + (IF data.expand.id = inflight THEN 1 ELSE 0)
             + (IF data.contract.id = inflight THEN 1 ELSE 0) = 1
\* C16: ANGEL: when a convergence test succeeds in phase p, the state becomes
\* CONVERGED and the CONVERGED key 1 if p is the final phase (perf_n - 1);
\* otherwise the phase becomes p + 1, the state INIT and the key stays 0.  The
\* key is never 1 while a phase before the final one is active.
ConvergenceByPhase ==
    /\ [](strategy = "angel"
            => /\ (data.CONVERGED = 1)
                    => (data.phase = data.perf_n - 1 /\ data.state = CONVERGED)
               /\ IF data.phase = data.perf_n - 1
                  THEN /\ converged(data).state = CONVERGED
                       /\ converged(data).CONVERGED = 1
                       /\ converged(data).phase = data.phase
                  ELSE /\ converged(data).state = INIT
                       /\ converged(data).CONVERGED = 0
                       /\ converged(data).phase = data.phase + 1)
    /\ [][ strategy = "angel"
             => /\ (data'.phase # data.phase)
                    => (/\ data.phase < data.perf_n - 1
                        /\ data'.phase = data.phase + 1
                        /\ data'.state = INIT
                        /\ data'.CONVERGED = 0)
                /\ (data.state # CONVERGED /\ data'.state = CONVERGED)
                    => (/\ data.phase = data.perf_n - 1
                        /\ data'.phase = data.phase
                        /\ data'.CONVERGED = 1) ]_vars
ConvergenceByPhaseSeen ==
    /\ strategy = "angel"
    /\ last.op = "analyze"
    /\ last.ret = 0
    /\ data.perf_n = 2
    /\ data.phase = 1
    /\ data.state = INIT
    /\ data.CONVERGED = 0
    /\ hist = NoHist
    /\ data.next_id > SimplexLen
\* C17: PRO configuration: each coefficient is validated against its own range,
\* whatever the other coefficients hold: PRO_REFLECT is accepted iff > 0,
\* PRO_EXPAND iff > 1, PRO_CONTRACT and PRO_SHRINK iff strictly between 0 and
\* 1; init fails exactly when a supplied coefficient is outside its own range.
CoefInRange(key, q) ==
    CASE key = "PRO_REFLECT" -> q[1] > 0
      [] key = "PRO_EXPAND" -> q[1] > q[2]
      [] key \in { "PRO_CONTRACT", "PRO_SHRINK" } -> q[1] > 0 /\ q[1] < q[2]
CoefficientsValidatedEach ==
    (strategy = "pro_cfg" /\ last.op = "init")
        => (last.ret = 0
              <=> \A key \in ProKeys :
                      pro.cfg[key] # Unset => CoefInRange(key, pro.cfg[key]))
\* C18: Exhaustive strategy: starting from the minimum-value point, successive
\* generate and no-hint rejected calls advance the tuning variables like an
\* odometer and, for a finite space, hand out every point of the space exactly
\* once per pass before the search is considered converged.
SpacePoints == DimLen ^ Len(ExhSpace)
RECURSIVE OdometerIndex(_, _)
OdometerIndex(k, i) ==
    IF i > Len(ExhSpace) THEN << >>
    ELSE << k % DimLen >> \o OdometerIndex(k \div DimLen, i + 1)
OdometerPoint(k) ==
    [ i \in DOMAIN ExhSpace |->
        ExhSpace[i].min + OdometerIndex(k % SpacePoints, 1)[i] * ExhSpace[i].step ]
OdometerOncePerPass ==
    strategy = "exhaustive"
        => /\ \A k \in 1..Len(exh.given) : exh.given[k] = OdometerPoint(k - 1)
           /\ Len(exh.given) <= data.PASSES * SpacePoints
           /\ (data.CONVERGED = 1) => (Len(exh.given) = data.PASSES * SpacePoints)
\* C19: Exhaustive strategy: in whatever order the trial results come back,
\* the CONVERGED key is 1 only when the final point has been analysed and no
\* point generated before the final point still awaits analysis.
ConvergedOnlyWhenAllBack ==
    (strategy = "exhaustive" /\ data.CONVERGED = 1)
        => /\ data.final_id \in exh.analysed
           /\ \A pt \in exh.waiting : pt.id >= data.final_id
\* C20: ANGEL in state REFLECT, on analyze of the reflected vertex r (comparing
\* obj[phase]): if f(r) < f(best simplex vertex) the state becomes EXPAND and
\* the simplex is unchanged; else if f(r) < f(worst simplex vertex) r replaces
\* the worst vertex, best, worst and centroid are recomputed and the state
\* stays REFLECT; otherwise the state becomes CONTRACT and the simplex is
\* unchanged.
\* the search data once analyze has updated the spans and stored the penalised
\* performance in the pending vertex, before it calls nm_algorithm
StoredWith(d, perf) == WritePerf(d, Penalised(d, perf), TRUE)
AnalyzeStored(d, perf) ==
    StoredWith([ d EXCEPT !.span = SpanUpdate(d.span, perf) ], perf)
LeastObj(d) ==
    CHOOSE i \in 0..(SimplexLen - 1) :
        \A j \in 0..(SimplexLen - 1) : ~DLt(Obj(d, j), Obj(d, i))
MostObj(d) ==
    CHOOSE i \in 0..(SimplexLen - 1) :
        \A j \in 0..(SimplexLen - 1) : ~DGt(Obj(d, j), Obj(d, i))
ReflectOutcome(d, t) ==
    IF DLt(d.reflect.perf[d.phase + 1], Obj(d, LeastObj(d)))
    THEN t.state = EXPAND /\ t.simplex = d.simplex
    ELSE IF DLt(d.reflect.perf[d.phase + 1], Obj(d, MostObj(d)))
    THEN /\ t.state = REFLECT
         /\ \E w \in 0..(SimplexLen - 1) :
                /\ Obj(d, w) = Obj(d, MostObj(d))
                /\ t.simplex = [ d.simplex EXCEPT ![w + 1] = d.reflect ]
         /\ Obj(t, t.index_best) = Obj(t, LeastObj(t))
         /\ Obj(t, t.index_worst) = Obj(t, MostObj(t))
         /\ t.centroid.term * (SimplexLen - 1)
              = SumTerm(t.simplex, (1..SimplexLen) \ { t.index_worst + 1 })
    ELSE t.state = CONTRACT /\ t.simplex = d.simplex
ReflectTransition ==
    (strategy = "angel" /\ data.state = REFLECT /\ inflight # 0)
        => \A perf \in Trials(data.perf_n) :
               ReflectOutcome(AnalyzeStored(data, perf),
                              nm_state_transition(AnalyzeStored(data, perf)))
ReflectTransitionSeen ==
    /\ strategy = "angel"
    /\ last.op = "analyze"
    /\ last.ret = 0
    /\ data.state = REFLECT
    /\ data.reflect.id = data.next_id - 1
    /\ data.simplex[data.index_best + 1].id = data.reflect.id
    /\ data.next_id > SimplexLen + 1

\* C21: ANGEL in state EXPAND, on analyze of the expanded vertex e: if
\* f(e) < f(best simplex vertex) e replaces the worst vertex, otherwise the
\* reflected vertex r measured before it does, with the performance r measured
\* (which was below the best vertex's); in both cases exactly one simplex vertex
\* changes, best, worst and centroid are recomputed and the state becomes
\* REFLECT.
ExpandTaken(d) ==
    IF DLt(d.expand.perf[d.phase + 1], Obj(d, LeastObj(d))) THEN d.expand ELSE d.reflect
Recomputed(t) ==
    /\ Obj(t, t.index_best) = Obj(t, LeastObj(t))
    /\ Obj(t, t.index_worst) = Obj(t, MostObj(t))
    /\ t.centroid.term * (SimplexLen - 1)
         = SumTerm(t.simplex, (1..SimplexLen) \ { t.index_worst + 1 })
ExpandOutcome(d, t) ==
    /\ t.state = REFLECT
    /\ DLt(d.reflect.perf[d.phase + 1], Obj(d, LeastObj(d)))
    /\ \E w \in 0..(SimplexLen - 1) :
           /\ Obj(d, w) = Obj(d, MostObj(d))
           /\ t.simplex = [ d.simplex EXCEPT ![w + 1] = ExpandTaken(d) ]
    /\ Cardinality({ i \in 1..SimplexLen : t.simplex[i] # d.simplex[i] }) = 1
    /\ Recomputed(t)
ContractOutcome(d, t) ==
    IF DLt(d.contract.perf[d.phase + 1], Obj(d, MostObj(d)))
    THEN /\ t.state = REFLECT
         /\ \E w \in 0..(SimplexLen - 1) :
                /\ Obj(d, w) = Obj(d, MostObj(d))
                /\ t.simplex = [ d.simplex EXCEPT ![w + 1] = d.contract ]
    ELSE t.state = SHRINK /\ t.simplex = d.simplex
ContractTransition ==
    (strategy = "angel" /\ data.state = CONTRACT /\ inflight # 0)
        => \A perf \in Trials(data.perf_n) :
               ContractOutcome(AnalyzeStored(data, perf),
                               nm_state_transition(AnalyzeStored(data, perf)))
ContractTransitionSeen ==
    /\ strategy = "angel"
    /\ last.op = "analyze"
    /\ last.ret = 0
    /\ data.state = SHRINK
    /\ data.contract.id = data.next_id - 1
    /\ data.next = [ slot |-> "simplex", idx |-> 0 ]

\* C23: ANGEL SHRINK: the step that enters SHRINK shrinks the whole simplex
\* toward the best vertex and hands out vertex 0; each accepted analyze that
\* stays in SHRINK moves on to the vertex of the next index and shrinks no
\* vertex again; and SHRINK is left only by a step taken while the vertex of
\* index len (the last one) was the one handed out.
ShrinkEntered(d, t) ==
    /\ t.next = [ slot |-> "simplex", idx |-> 0 ]
    /\ \A i \in 1..SimplexLen :
           t.simplex[i].term
             = simplex_transform(d.simplex, d.simplex[d.index_best + 1],
                                 Neg(shrink_val))[i].term
ShrinkWalk ==
    (strategy = "angel" /\ data'.state = SHRINK)
        => /\ (data.state = CONTRACT /\ data.phase = data'.phase)
                  => ShrinkEntered(data, data')
           /\ (data.state = SHRINK /\ last'.op = "analyze" /\ last'.ret = 0)
                  => /\ data'.next = [ slot |-> "simplex", idx |-> data.next.idx + 1 ]
                     /\ \A i \in 1..SimplexLen :
                            data'.simplex[i].term = data.simplex[i].term
ShrinkLeft ==
    (strategy = "angel" /\ data.state = SHRINK /\ data'.state # SHRINK)
        => /\ data.next = [ slot |-> "simplex", idx |-> SpaceLen ]
           /\ data.index_curr = SpaceLen
ShrinkWalked == [][ShrinkWalk /\ ShrinkLeft]_vars
ShrinkWalkedSeen ==
    /\ strategy = "angel"
    /\ last.op = "analyze"
    /\ last.ret = 0
    /\ data.state = REFLECT
    /\ data.contract.id # 0
    /\ \A i \in 1..SimplexLen : data.simplex[i].id > data.contract.id

\* PRO: the candidate simplex is fetched whole and every vertex but vertex i has
\* been reported in this round: the report for i makes it fully measured
AwaitsLast(i) ==
    /\ pro.send_idx = pro.simplex_size
    /\ pro.reported = pro.simplex_size - 1
    /\ measured.run = pro.runs
    /\ measured.idx = { k - 1 : k \in DOMAIN pro.test } \ { i }
\* the first pro_next_state() of the pro_algorithm() call that report makes
FirstStep(q) == pro_next_state(q, q.test, q.best_test)

\* C24: PRO in state INIT or SHRINK, once the candidate simplex T is fully
\* measured: T becomes the reference simplex B whatever it measured, best_base
\* becomes best_test, and the state becomes REFLECT.
AcceptOutcome(q, t) ==
    /\ t.state = REFLECT
    /\ t.base = q.test
    /\ t.best_base = q.best_test
    /\ \A k \in DOMAIN t.base : IsFin(t.base[k].perf)
InitShrinkAccepts ==
    strategy = "pro"
        => \A i \in 0..(pro.simplex_size - 1), perf \in ProPerfVals :
               (AwaitsLast(i) /\ pro.state \in { INIT, SHRINK })
                   => AcceptOutcome(ReportStored(pro, i, perf),
                                    FirstStep(ReportStored(pro, i, perf)))
InitShrinkAcceptsSeen ==
    /\ strategy = "pro"
    /\ last.op = "report"
    /\ pro.state = REFLECT
    /\ pro.runs = 1
    /\ pro.reported = 0
    /\ \A k \in DOMAIN pro.base :
           /\ pro.base[k].id = pro.next_id - pro.simplex_size + k - 1
           /\ IsFin(pro.base[k].perf)

\* C25: PRO in state REFLECT, once the reflected simplex T is fully measured
\* (best_test then indexes a vertex of T with the least performance): if
\* perf(T[best_test]) < perf(B[best_base]) then T becomes B, best_test is
\* stashed and the state becomes EXPAND_ONE; otherwise B and best_base are
\* unchanged and the state becomes SHRINK.
LeastOf(s, b) == \A k \in DOMAIN s : s[b + 1].perf <= s[k].perf
ReflectedOutcome(q, t) ==
    /\ LeastOf(q.test, q.best_test)
    /\ IF q.test[q.best_test + 1].perf < q.base[q.best_base + 1].perf
       THEN t.state = EXPAND_ONE /\ t.base = q.test /\ t.best_stash = q.best_test
       ELSE t.state = SHRINK /\ t.base = q.base /\ t.best_base = q.best_base
ReflectedSimplexStep ==
    strategy = "pro"
        => \A i \in 0..(pro.simplex_size - 1), perf \in ProPerfVals :
               (AwaitsLast(i) /\ pro.state = REFLECT)
                   => ReflectedOutcome(ReportStored(pro, i, perf),
                                       FirstStep(ReportStored(pro, i, perf)))
ReflectedSimplexStepSeen ==
    /\ strategy = "pro"
    /\ last.op = "report"
    /\ pro.state = EXPAND_ONE
    /\ pro.reported = 0
    /\ pro.best_stash = pro.best_test
    /\ \A k \in DOMAIN pro.base :
           /\ pro.base[k].id = pro.next_id - pro.simplex_size + k - 1
           /\ IsFin(pro.base[k].perf)

\* C26: PRO in state EXPAND_ONE, once the candidate is fully measured: if its
\* vertex 0, the single expanded vertex, is better than B[best_base] the state
\* becomes EXPAND_ALL; otherwise B stays the accepted reflected simplex, best_base
\* becomes the index stashed when the reflection was accepted, and the state
\* becomes REFLECT.
ExpandedOneOutcome(q, t) ==
    IF q.test[1].perf < q.base[q.best_base + 1].perf
    THEN t.state = EXPAND_ALL
    ELSE t.state = REFLECT /\ t.base = q.base /\ t.best_base = q.best_stash
ExpandOneReverts ==
    strategy = "pro"
        => \A i \in 0..(pro.simplex_size - 1), perf \in ProPerfVals :
               (AwaitsLast(i) /\ pro.state = EXPAND_ONE)
                   => ExpandedOneOutcome(ReportStored(pro, i, perf),
                                         FirstStep(ReportStored(pro, i, perf)))

\* C27: PRO in state EXPAND_ALL, once the expanded simplex T is fully measured
\* (best_test then indexes a vertex of T with the least performance): if
\* perf(T[best_test]) < perf(B[best_base]) then T becomes B and best_base
\* becomes best_test, otherwise B and best_base are unchanged; in both cases
\* the state becomes REFLECT.
ExpandedAllOutcome(q, t) ==
    /\ LeastOf(q.test, q.best_test)
    /\ t.state = REFLECT
    /\ IF q.test[q.best_test + 1].perf < q.base[q.best_base + 1].perf
       THEN t.base = q.test /\ t.best_base = q.best_test
       ELSE t.base = q.base /\ t.best_base = q.best_base
ExpandedSimplexStep ==
    strategy = "pro"
        => \A i \in 0..(pro.simplex_size - 1), perf \in ProPerfVals :
               (AwaitsLast(i) /\ pro.state = EXPAND_ALL)
                   => ExpandedAllOutcome(ReportStored(pro, i, perf),
                                         FirstStep(ReportStored(pro, i, perf)))
\* a reference simplex wider than every initial one was accepted after EXPAND_ALL
ExpandedSimplexStepSeen ==
    /\ strategy = "pro"
    /\ last.op = "report"
    /\ pro.state = REFLECT
    /\ pro.reported = 0
    /\ \A k \in DOMAIN pro.base : IsFin(pro.base[k].perf)
    /\ \A terms \in ProInitTerms :
           Abs(pro.base[1].term - pro.base[2].term) > Abs(terms[1] - terms[2])

\* C28: PRO: whenever a REFLECT candidate simplex has been generated, the pivot
\* B[best_base] it was reflected through is a vertex of the reference simplex
\* whose measured performance is least among the reference simplex's vertices.
PivotIsBest ==
    (strategy = "pro" /\ pro.state = REFLECT) => LeastOf(pro.base, pro.best_base)

CheckInput(d, perf) ==
    update_centroid(nm_state_transition(
        UpdateBest(AnalyzeStored(d, perf), Trial(NextVertex(d).id, perf),
                   Penalised([ d EXCEPT !.span = SpanUpdate(d.span, perf) ], perf))))
PhaseConverged(t, u) == u.state = CONVERGED \/ u.phase = t.phase + 1
FvalSizeMet(t) ==
    /\ t.state = REFLECT
    /\ DLt(FvalErr(t), fval_tol * PerfUnit * PerfUnit)
    /\ SizeMax(t) < size_tol
FvalSizeConverges ==
    (strategy = "angel" /\ inflight # 0 /\ data.state # CONVERGED
        /\ IsNaNQ(data.DIST_TOL))
        => \A perf \in Trials(data.perf_n) :
               FvalSizeMet(CheckInput(data, perf))
                   => PhaseConverged(CheckInput(data, perf),
                                     check_convergence(CheckInput(data, perf)))

\* C32: ANGEL with DIST_TOL configured: at a REFLECT-step convergence check
\* that the flatness and collapse tests let pass, a reflection move length
\* that is, as a fraction of the space diameter, at most DIST_TOL counts as one
\* more consecutive short step, and the phase converges when tol_cnt of them
\* are counted; a move length above DIST_TOL restarts the count and does not
\* converge the phase.
DistChecked(t) ==
    /\ t.state = REFLECT
    /\ ~(Flat(t) /\ t.flat_cnt + 1 >= 3)
    /\ ~simplex_collapsed(t.simplex)
DistOutcome(t, u) ==
    IF QLe(t.move_len, t.DIST_TOL)
    THEN IF t.cnt + 1 >= t.tol_cnt
         THEN PhaseConverged(t, u)
         ELSE ~PhaseConverged(t, u) /\ u.cnt = t.cnt + 1
    ELSE ~PhaseConverged(t, u) /\ u.cnt = 0
DistTolConverges ==
    (strategy = "angel" /\ inflight # 0 /\ data.state # CONVERGED
        /\ ~IsNaNQ(data.DIST_TOL))
        => \A perf \in Trials(data.perf_n) :
               DistChecked(CheckInput(data, perf))
                   => DistOutcome(CheckInput(data, perf),
                                  check_convergence(CheckInput(data, perf)))

\* C33: ANGEL phase transition with anchor and samesimplex: the simplex of the
\* new phase is the initial simplex with exactly one vertex, one nearest to the
\* previous phase's best simplex vertex, overwritten by that best vertex; every
\* other vertex equals the corresponding initial-simplex vertex.
AnchorOutcome(t, u) ==
    LET best == t.simplex[t.index_best + 1]
    IN  /\ Obj(t, t.index_best) = Obj(t, LeastObj(t))
        /\ \E idx \in 1..SimplexLen :
               /\ \A j \in 1..SimplexLen :
                      vertex_norm(best, t.init_simplex[idx])
                          <= vertex_norm(best, t.init_simplex[j])
               /\ u.simplex = [ t.init_simplex EXCEPT ![idx] = best ]
RejectInput(d) == update_centroid(nm_state_transition(ResetNextPerf(d)))
PhaseAnchored ==
    (strategy = "angel" /\ inflight # 0 /\ data.state # CONVERGED
        /\ anchor /\ samesimplex)
        => \A t \in { CheckInput(data, perf) : perf \in Trials(data.perf_n) }
                    \cup { RejectInput(data) } :
               (t.state = REFLECT /\ check_convergence(t).phase = t.phase + 1)
                   => AnchorOutcome(t, check_convergence(t))
\* C33 as the code has it: the vertex is overwritten when a best point was
\* recorded in the previous phase; when every point of that phase was rejected
\* (best.id = 0) the new simplex is the initial simplex unchanged.
PhaseAnchoredIfMeasured ==
    (strategy = "angel" /\ inflight # 0 /\ data.state # CONVERGED
        /\ anchor /\ samesimplex)
        => \A t \in { CheckInput(data, perf) : perf \in Trials(data.perf_n) }
                    \cup { RejectInput(data) } :
               (t.state = REFLECT /\ check_convergence(t).phase = t.phase + 1)
                   => IF t.best.id > 0
                      THEN AnchorOutcome(t, check_convergence(t))
                      ELSE check_convergence(t).simplex = t.init_simplex
PhaseAnchoredSeen ==
    /\ strategy = "angel"
    /\ last.op = "analyze"
    /\ last.ret = 0
    /\ data.phase = 1
    /\ data.state = INIT
    /\ data.next_id > SimplexLen
    /\ hist = NoHist
    /\ data.simplex[2] # data.init_simplex[2]
    /\ data.simplex[1].term = data.init_simplex[1].term

\* C34: ANGEL strict mode, phase p: a point that exceeds the threshold of an
\* objective k gets a strictly greater penalty than any point that exceeds
\* only thresholds of objectives of lower priority (k < j < p).
Exceeded(perf) == { k \in 0..(data.phase - 1) : Violates(data, perf, k) }
PenaltyLexicographic ==
    (strategy = "penalty" /\ ~loose /\ point # Unscored /\ hist # Unscored)
        => \A k \in Exceeded(point.perf) :
               (\A j \in Exceeded(hist.perf) : j > k)
                   => point.penalty > hist.penalty

\* C35: ANGEL: at the transition from phase p to p + 1, thresh[p] is
\* span[p].min + leeway[p] * (span[p].max - span[p].min) of the spans observed
\* up to that moment, the report that ends the phase included, and no later
\* step changes thresh[p].
ThresholdOutcome(t, u) ==
    LET sp == t.span[t.phase + 1]
        lw == leeway(t.phase)
    IN  (IsFin(sp.min) /\ IsFin(sp.max))
            => /\ IsFin(u.thresh[t.phase + 1])
               /\ lw[2] * (u.thresh[t.phase + 1] - sp.min) = lw[1] * (sp.max - sp.min)
ThresholdFixed ==
    /\ [](( strategy = "angel" /\ inflight # 0 /\ data.state # CONVERGED)
            => \A t \in { CheckInput(data, perf) : perf \in Trials(data.perf_n) }
                        \cup { RejectInput(data) } :
                   (t.state = REFLECT /\ check_convergence(t).phase = t.phase + 1)
                       => ThresholdOutcome(t, check_convergence(t)))
    /\ [][ strategy = "angel"
             => \A k \in 1..data.phase : data'.thresh[k] = data.thresh[k] ]_vars
ThresholdFixedSeen ==
    /\ strategy = "angel"
    /\ last.op = "analyze"
    /\ last.ret = 0
    /\ data.phase = 1
    /\ IsFin(data.thresh[1])
    /\ data.thresh[1] > data.span[1].min
    /\ hist # NoHist

\* C36: ANGEL, after a single init: the phase index is always within
\* 0..perf_n - 1, no step decreases it, and a step raises it by exactly one,
\* which it does only from a phase that is not the final one and together with
\* the ANGEL_PHASE key.
PhaseBounded ==
    /\ [](strategy = "angel"
            => /\ data.phase >= 0
               /\ data.phase <= data.perf_n - 1
               /\ data.ANGEL_PHASE = data.phase)
    /\ [][ strategy = "angel"
             => /\ data'.phase >= data.phase
                /\ data'.phase <= data.phase + 1
                /\ (data'.phase = data.phase + 1)
                       => (data.phase < data.perf_n - 1 /\ data.state # CONVERGED) ]_vars
PhaseBoundedSeen ==
    /\ strategy = "angel"
    /\ data.perf_n = 2
    /\ data.phase = 1
    /\ data.state = CONVERGED

\* C37: ANGEL: a rejected call, in any rejection mode, changes none of
\* next_id, the recorded best point and best performance, the observed spans,
\* the thresholds and the phase; in random mode without a hint it also leaves
\* state and index_curr unchanged and only replaces the coordinates of the
\* pending candidate vertex.
RandomOnlyMoves ==
    (data.reject_type = REJECT_METHOD_RANDOM /\ last'.hint.id = 0)
        => /\ data'.state = data.state
           /\ data'.index_curr = data.index_curr
           /\ data' = SetNext(data, [ NextVertex(data) EXCEPT
                                        !.term = NextVertex(data').term ])
FetchReportBounds ==
    /\ [](strategy = "pro"
            => /\ pro.send_idx >= 0
               /\ pro.send_idx <= pro.simplex_size
               /\ pro.reported >= 0
               /\ pro.reported < pro.simplex_size
               /\ \A k \in 1..pro.send_idx :
                      pro.test[k].id = pro.next_id - pro.send_idx + k - 1)
    /\ [][ (strategy = "pro" /\ last'.op = "fetch")
             => IF pro.send_idx = pro.simplex_size
                THEN /\ last'.status = "BUSY"
                     /\ pro' = pro
                     /\ point' = point
                ELSE /\ last'.status = "OK"
                     /\ point' = [ id |-> pro.next_id,
                                   term |-> Align(pro.test[pro.send_idx + 1].term) ]
                     /\ \A k \in DOMAIN pro.test : pro.test[k].id < pro.next_id
                     /\ pro'.test[pro.send_idx + 1].id = pro.next_id
                     /\ pro'.send_idx = pro.send_idx + 1
                     /\ pro'.next_id = pro.next_id + 1
                     /\ pro'.reported = pro.reported ]_vars
FetchReportBoundsSeen ==
    /\ strategy = "pro"
    /\ last.op = "fetch"
    /\ last.status = "BUSY"
    /\ pro.send_idx = pro.simplex_size
    /\ pro.reported = pro.simplex_size - 1
    /\ pro.runs > 0

\* C39: PRO: in every round, when the report that completes the candidate
\* simplex has stored its performance and pro_algorithm() is about to run
\* (the search has not converged), best_test indexes a vertex whose performance is least among those reported
\* for the candidate simplex.
BestTestLeast ==
    strategy = "pro"
        => \A i \in 0..(pro.simplex_size - 1), perf \in ProPerfVals :
               (AwaitsLast(i) /\ pro.state # CONVERGED)
                   => LeastOf(ReportStored(pro, i, perf).test,
                              ReportStored(pro, i, perf).best_test)

\* C40: ANGEL: in every reachable state the pending candidate refers to a valid
\* slot: in state REFLECT, EXPAND or CONTRACT index_curr is 0 and the candidate
\* is that state's scratch vertex; in state INIT or SHRINK
\* 0 <= index_curr <= space.len and the candidate is simplex[index_curr], a
\* vertex of the simplex.
PendingSlotValid ==
    (strategy = "angel" /\ data.state # CONVERGED)
        => /\ data.next.slot = CASE data.state = REFLECT -> "reflect"
                                  [] data.state = EXPAND -> "expand"
                                  [] data.state = CONTRACT -> "contract"
                                  [] OTHER -> "simplex"
           /\ data.state \in { REFLECT, EXPAND, CONTRACT } => data.index_curr = 0
           /\ data.state \in { INIT, SHRINK }
                  => /\ data.index_curr >= 0
                     /\ data.index_curr <= SpaceLen
                     /\ data.next.idx = data.index_curr
                     /\ data.next.idx + 1 \in DOMAIN data.simplex
PendingSlotValidSeen ==
    /\ strategy = "angel"
    /\ data.state = SHRINK
    /\ data.index_curr = SpaceLen
    /\ data.next = [ slot |-> "simplex", idx |-> SpaceLen ]
    /\ inflight = NextVertex(data).id
    /\ inflight # 0
====
